---- MODULE Spec2Model ----
(***************************************************************************)
(* Zoning requirements pipeline: the Response Parser, Zone Collection      *)
(* Locator, Field Mapper, Contamination Corrector and Deduplicator &       *)
(* Persister of backend/app/services/requirements_processor.py, driven by  *)
(* DocumentProcessor.process_document, over an upsert store.               *)
(*                                                                         *)
(* Text is modelled character by character: a Python str is a sequence of  *)
(* one-character strings.  Three characters that TLA+ cannot spell are     *)
(* named: "sup1".."sup3" are the superscript digits U+00B9, U+00B2,       *)
(* U+00B3, "ctl" is a control character (U+0001) and "nl" is a line feed.  *)
(* Numbers are exact decimals m * 10^(-e).                                 *)
(***************************************************************************)
EXTENDS Integers, Sequences, FiniteSets, TLC

----------------------------------------------------------------------------
(* Characters and the str methods the pipeline uses                        *)

QUOTE == "\""
BSLASH == "\\"

UpperChars == <<"A","B","C","D","E","F","G","H","I","J","K","L","M","N","O","P","Q","R","S","T","U","V","W","X","Y","Z">>
LowerChars == <<"a","b","c","d","e","f","g","h","i","j","k","l","m","n","o","p","q","r","s","t","u","v","w","x","y","z">>
DigitChars == <<"0","1","2","3","4","5","6","7","8","9">>
SuperscriptChars == {"sup1", "sup2", "sup3"}

Range(f) == {f[i] : i \in DOMAIN f}

IsUpper(c) == c \in Range(UpperChars)
IsLower(c) == c \in Range(LowerChars)
IsAlpha(c) == IsUpper(c) \/ IsLower(c)
\* [0-9] and \d of a str pattern: superscript digits are category No, not Nd
IsDigit(c) == c \in Range(DigitChars)
\* str.strip() and \s
IsSpace(c) == c \in {" ", "nl"}
\* the class [\x00-\x1F\x7F-\x9F]
IsControl(c) == c \in {"ctl", "nl"}

\* str.lower(), one character
LowerChar(c) ==
    IF IsUpper(c) THEN LowerChars[CHOOSE i \in 1..26 : UpperChars[i] = c] ELSE c

\* str.lower()
Lower(s) == [i \in 1..Len(s) |-> LowerChar(s[i])]

\* str.strip()
Strip(s) ==
    LET keep == {i \in 1..Len(s) : ~IsSpace(s[i])}
    IN  IF keep = {} THEN <<>>
        ELSE SubSeq(s, CHOOSE i \in keep : \A j \in keep : i <= j,
                       CHOOSE i \in keep : \A j \in keep : j <= i)

\* str.find(c) for a one-character needle, 1-based; 0 when absent (Python: -1)
Find(s, c) ==
    LET at == {i \in 1..Len(s) : s[i] = c}
    IN  IF at = {} THEN 0 ELSE CHOOSE i \in at : \A j \in at : i <= j

\* str.rfind(c), 1-based; 0 when absent
RFind(s, c) ==
    LET at == {i \in 1..Len(s) : s[i] = c}
    IN  IF at = {} THEN 0 ELSE CHOOSE i \in at : \A j \in at : j <= i

\* s[:n]
Prefix(s, n) == SubSeq(s, 1, IF Len(s) < n THEN Len(s) ELSE n)

\* whether the literal lit stands in s at position i
MatchAt(s, i, lit) ==
    /\ i >= 1
    /\ i + Len(lit) - 1 <= Len(s)
    /\ SubSeq(s, i, i + Len(lit) - 1) = lit

\* the least element of a non-empty set of positions
First(positions) == CHOOSE j \in positions : \A k \in positions : j <= k

\* the end of the longest run of characters of class P that starts at i
\* (i - 1 when s[i] is not in the class)
RunEnd(s, i, P(_)) ==
    LET stop == {j \in i..Len(s) : ~P(s[j])}
    IN  IF stop = {} THEN Len(s)
        ELSE (CHOOSE j \in stop : \A k \in stop : j <= k) - 1

DigitVal(c) == (CHOOSE i \in 1..10 : DigitChars[i] = c) - 1

RECURSIVE DigitsToInt(_)
\* int() of a string of ASCII digits
DigitsToInt(ds) ==
    IF ds = <<>> THEN 0
    ELSE 10 * DigitsToInt(SubSeq(ds, 1, Len(ds) - 1)) + DigitVal(ds[Len(ds)])

RECURSIVE IntToDigits(_)
\* str() of a non-negative int
IntToDigits(n) ==
    IF n < 10 THEN <<DigitChars[n + 1]>>
    ELSE Append(IntToDigits(n \div 10), DigitChars[(n % 10) + 1])

RECURSIVE Pow10(_)
Pow10(e) == IF e = 0 THEN 1 ELSE 10 * Pow10(e - 1)

----------------------------------------------------------------------------
(* Python values: None, bool, int/float (finite, NaN, infinite), str,      *)
(* list, dict (insertion ordered)                                          *)

None == [t |-> "null"]
Bool(b) == [t |-> "bool", b |-> b]
NaN == [t |-> "nan"]
Inf(neg) == [t |-> "inf", neg |-> neg]
Str(s) == [t |-> "str", s |-> s]
List(items) == [t |-> "list", items |-> items]
Dict(items) == [t |-> "dict", items |-> items]

RECURSIVE Num(_, _)
\* the finite number m * 10^(-e), normalised so that equal numbers are equal
Num(m, e) ==
    IF e > 0 /\ m % 10 = 0 THEN Num(m \div 10, e - 1)
    ELSE [t |-> "num", m |-> m, e |-> e]

IsNone(v) == v.t = "null"
IsStr(v) == v.t = "str"
IsDict(v) == v.t = "dict"
IsList(v) == v.t = "list"
\* a float or int that is neither NaN nor an infinity
IsFinite(v) == v.t = "num"
IsNumber(v) == v.t \in {"num", "nan", "inf"}

\* Python truthiness
Truthy(v) ==
    CASE v.t = "null" -> FALSE
      [] v.t = "bool" -> v.b
      [] v.t = "num" -> v.m # 0
      [] v.t = "str" -> v.s # <<>>
      [] v.t = "list" -> v.items # <<>>
      [] v.t = "dict" -> v.items # <<>>
      [] OTHER -> TRUE

\* key in d
DictHas(d, k) == \E i \in 1..Len(d.items) : d.items[i].k = k

\* d[k], for a key that is present
DictAt(d, k) == d.items[CHOOSE i \in 1..Len(d.items) : d.items[i].k = k].v

\* d.get(k, default)
DictGet(d, k, default) == IF DictHas(d, k) THEN DictAt(d, k) ELSE default

\* d[k] = v on the item list: a repeated key keeps its place and takes the new value
DictSet(items, k, v) ==
    IF \E i \in 1..Len(items) : items[i].k = k
    THEN [i \in 1..Len(items) |-> IF items[i].k = k THEN [k |-> k, v |-> v] ELSE items[i]]
    ELSE Append(items, [k |-> k, v |-> v])

----------------------------------------------------------------------------
(* The keys the pipeline names, spelled in characters: a document keeps its  *)
(* items under the names, the parser and the encoder go through the table   *)

Spell ==
    [
      other |-> <<"o","t","h","e","r">>,
      raw_response |-> <<"r","a","w","_","r","e","s","p","o","n","s","e">>,
      zones |-> <<"z","o","n","e","s">>,
      zoning_requirements |-> <<"z","o","n","i","n","g","_","r","e","q","u","i","r","e","m","e","n","t","s">>,
      requirements |-> <<"r","e","q","u","i","r","e","m","e","n","t","s">>,
      extracted_zones |-> <<"e","x","t","r","a","c","t","e","d","_","z","o","n","e","s">>,
      districts |-> <<"d","i","s","t","r","i","c","t","s">>,
      zone |-> <<"z","o","n","e">>,
      district |-> <<"d","i","s","t","r","i","c","t">>,
      zoning |-> <<"z","o","n","i","n","g">>,
      Zone |-> <<"Z","o","n","e">>,
      extraction_confidence |-> <<"e","x","t","r","a","c","t","i","o","n","_","c","o","n","f","i","d","e","n","c","e">>,
      municipality |-> <<"m","u","n","i","c","i","p","a","l","i","t","y">>,
      county |-> <<"c","o","u","n","t","y">>,
      state |-> <<"s","t","a","t","e">>,
      extracted_town |-> <<"e","x","t","r","a","c","t","e","d","_","t","o","w","n">>,
      original_filename |-> <<"o","r","i","g","i","n","a","l","_","f","i","l","e","n","a","m","e">>,
      filename |-> <<"f","i","l","e","n","a","m","e">>,
      extracted_county |-> <<"e","x","t","r","a","c","t","e","d","_","c","o","u","n","t","y">>,
      interior_lots |-> <<"i","n","t","e","r","i","o","r","_","l","o","t","s">>,
      interior |-> <<"i","n","t","e","r","i","o","r">>,
      interior_lot |-> <<"i","n","t","e","r","i","o","r","_","l","o","t">>,
      corner_lots |-> <<"c","o","r","n","e","r","_","l","o","t","s">>,
      corner |-> <<"c","o","r","n","e","r">>,
      corner_lot |-> <<"c","o","r","n","e","r","_","l","o","t">>,
      lot_requirements |-> <<"l","o","t","_","r","e","q","u","i","r","e","m","e","n","t","s">>,
      additional_lot_requirements |-> <<"a","d","d","i","t","i","o","n","a","l","_","l","o","t","_","r","e","q","u","i","r","e","m","e","n","t","s">>,
      lot_req |-> <<"l","o","t","_","r","e","q">>,
      principal_building_yards |-> <<"p","r","i","n","c","i","p","a","l","_","b","u","i","l","d","i","n","g","_","y","a","r","d","s">>,
      principal_yards |-> <<"p","r","i","n","c","i","p","a","l","_","y","a","r","d","s">>,
      main_building_yards |-> <<"m","a","i","n","_","b","u","i","l","d","i","n","g","_","y","a","r","d","s">>,
      accessory_building_yards |-> <<"a","c","c","e","s","s","o","r","y","_","b","u","i","l","d","i","n","g","_","y","a","r","d","s">>,
      accessory_yards |-> <<"a","c","c","e","s","s","o","r","y","_","y","a","r","d","s">>,
      accessory |-> <<"a","c","c","e","s","s","o","r","y">>,
      coverage_and_height |-> <<"c","o","v","e","r","a","g","e","_","a","n","d","_","h","e","i","g","h","t">>,
      coverage |-> <<"c","o","v","e","r","a","g","e">>,
      building_requirements |-> <<"b","u","i","l","d","i","n","g","_","r","e","q","u","i","r","e","m","e","n","t","s">>,
      floor_area |-> <<"f","l","o","o","r","_","a","r","e","a">>,
      floor_requirements |-> <<"f","l","o","o","r","_","r","e","q","u","i","r","e","m","e","n","t","s">>,
      area_requirements |-> <<"a","r","e","a","_","r","e","q","u","i","r","e","m","e","n","t","s">>,
      development_intensity |-> <<"d","e","v","e","l","o","p","m","e","n","t","_","i","n","t","e","n","s","i","t","y">>,
      intensity |-> <<"i","n","t","e","n","s","i","t","y">>,
      density |-> <<"d","e","n","s","i","t","y">>,
      interior_min_lot_area_sqft |-> <<"i","n","t","e","r","i","o","r","_","m","i","n","_","l","o","t","_","a","r","e","a","_","s","q","f","t">>,
      min_lot_area_sqft |-> <<"m","i","n","_","l","o","t","_","a","r","e","a","_","s","q","f","t">>,
      lot_area |-> <<"l","o","t","_","a","r","e","a">>,
      area_sqft |-> <<"a","r","e","a","_","s","q","f","t">>,
      minimum_area_sqft |-> <<"m","i","n","i","m","u","m","_","a","r","e","a","_","s","q","f","t">>,
      zone_name |-> <<"z","o","n","e","_","n","a","m","e">>,
      interior_min_lot_frontage_ft |-> <<"i","n","t","e","r","i","o","r","_","m","i","n","_","l","o","t","_","f","r","o","n","t","a","g","e","_","f","t">>,
      interior_min_lot_width_ft |-> <<"i","n","t","e","r","i","o","r","_","m","i","n","_","l","o","t","_","w","i","d","t","h","_","f","t">>,
      interior_min_lot_depth_ft |-> <<"i","n","t","e","r","i","o","r","_","m","i","n","_","l","o","t","_","d","e","p","t","h","_","f","t">>,
      min_lot_frontage_ft |-> <<"m","i","n","_","l","o","t","_","f","r","o","n","t","a","g","e","_","f","t">>,
      min_lot_width_ft |-> <<"m","i","n","_","l","o","t","_","w","i","d","t","h","_","f","t">>,
      min_lot_depth_ft |-> <<"m","i","n","_","l","o","t","_","d","e","p","t","h","_","f","t">>,
      min_circle_diameter_ft |-> <<"m","i","n","_","c","i","r","c","l","e","_","d","i","a","m","e","t","e","r","_","f","t">>,
      buildable_lot_area_sqft |-> <<"b","u","i","l","d","a","b","l","e","_","l","o","t","_","a","r","e","a","_","s","q","f","t">>,
      principal_front_yard_ft |-> <<"p","r","i","n","c","i","p","a","l","_","f","r","o","n","t","_","y","a","r","d","_","f","t">>,
      principal_min_front_yard_ft |-> <<"p","r","i","n","c","i","p","a","l","_","m","i","n","_","f","r","o","n","t","_","y","a","r","d","_","f","t">>,
      front_yard_ft |-> <<"f","r","o","n","t","_","y","a","r","d","_","f","t">>,
      front_setback |-> <<"f","r","o","n","t","_","s","e","t","b","a","c","k">>,
      principal_side_yard_ft |-> <<"p","r","i","n","c","i","p","a","l","_","s","i","d","e","_","y","a","r","d","_","f","t">>,
      principal_min_side_yard_ft |-> <<"p","r","i","n","c","i","p","a","l","_","m","i","n","_","s","i","d","e","_","y","a","r","d","_","f","t">>,
      side_yard_ft |-> <<"s","i","d","e","_","y","a","r","d","_","f","t">>,
      side_setback |-> <<"s","i","d","e","_","s","e","t","b","a","c","k">>,
      principal_street_side_yard_ft |-> <<"p","r","i","n","c","i","p","a","l","_","s","t","r","e","e","t","_","s","i","d","e","_","y","a","r","d","_","f","t">>,
      principal_min_street_side_yard_ft |-> <<"p","r","i","n","c","i","p","a","l","_","m","i","n","_","s","t","r","e","e","t","_","s","i","d","e","_","y","a","r","d","_","f","t">>,
      street_side_yard_ft |-> <<"s","t","r","e","e","t","_","s","i","d","e","_","y","a","r","d","_","f","t">>,
      street_side_setback |-> <<"s","t","r","e","e","t","_","s","i","d","e","_","s","e","t","b","a","c","k">>,
      principal_rear_yard_ft |-> <<"p","r","i","n","c","i","p","a","l","_","r","e","a","r","_","y","a","r","d","_","f","t">>,
      principal_min_rear_yard_ft |-> <<"p","r","i","n","c","i","p","a","l","_","m","i","n","_","r","e","a","r","_","y","a","r","d","_","f","t">>,
      rear_yard_ft |-> <<"r","e","a","r","_","y","a","r","d","_","f","t">>,
      rear_setback |-> <<"r","e","a","r","_","s","e","t","b","a","c","k">>,
      principal_street_rear_yard_ft |-> <<"p","r","i","n","c","i","p","a","l","_","s","t","r","e","e","t","_","r","e","a","r","_","y","a","r","d","_","f","t">>,
      principal_min_street_rear_yard_ft |-> <<"p","r","i","n","c","i","p","a","l","_","m","i","n","_","s","t","r","e","e","t","_","r","e","a","r","_","y","a","r","d","_","f","t">>,
      street_rear_yard_ft |-> <<"s","t","r","e","e","t","_","r","e","a","r","_","y","a","r","d","_","f","t">>,
      street_rear_setback |-> <<"s","t","r","e","e","t","_","r","e","a","r","_","s","e","t","b","a","c","k">>,
      accessory_front_yard_ft |-> <<"a","c","c","e","s","s","o","r","y","_","f","r","o","n","t","_","y","a","r","d","_","f","t">>,
      accessory_min_front_yard_ft |-> <<"a","c","c","e","s","s","o","r","y","_","m","i","n","_","f","r","o","n","t","_","y","a","r","d","_","f","t">>,
      garage_front_setback |-> <<"g","a","r","a","g","e","_","f","r","o","n","t","_","s","e","t","b","a","c","k">>,
      outbuilding_front |-> <<"o","u","t","b","u","i","l","d","i","n","g","_","f","r","o","n","t">>,
      accessory_side_yard_ft |-> <<"a","c","c","e","s","s","o","r","y","_","s","i","d","e","_","y","a","r","d","_","f","t">>,
      accessory_min_side_yard_ft |-> <<"a","c","c","e","s","s","o","r","y","_","m","i","n","_","s","i","d","e","_","y","a","r","d","_","f","t">>,
      garage_side_setback |-> <<"g","a","r","a","g","e","_","s","i","d","e","_","s","e","t","b","a","c","k">>,
      outbuilding_side |-> <<"o","u","t","b","u","i","l","d","i","n","g","_","s","i","d","e">>,
      accessory_street_side_yard_ft |-> <<"a","c","c","e","s","s","o","r","y","_","s","t","r","e","e","t","_","s","i","d","e","_","y","a","r","d","_","f","t">>,
      accessory_min_street_side_yard_ft |-> <<"a","c","c","e","s","s","o","r","y","_","m","i","n","_","s","t","r","e","e","t","_","s","i","d","e","_","y","a","r","d","_","f","t">>,
      accessory_rear_yard_ft |-> <<"a","c","c","e","s","s","o","r","y","_","r","e","a","r","_","y","a","r","d","_","f","t">>,
      accessory_min_rear_yard_ft |-> <<"a","c","c","e","s","s","o","r","y","_","m","i","n","_","r","e","a","r","_","y","a","r","d","_","f","t">>,
      garage_rear_setback |-> <<"g","a","r","a","g","e","_","r","e","a","r","_","s","e","t","b","a","c","k">>,
      outbuilding_rear |-> <<"o","u","t","b","u","i","l","d","i","n","g","_","r","e","a","r">>,
      accessory_street_rear_yard_ft |-> <<"a","c","c","e","s","s","o","r","y","_","s","t","r","e","e","t","_","r","e","a","r","_","y","a","r","d","_","f","t">>,
      accessory_min_street_rear_yard_ft |-> <<"a","c","c","e","s","s","o","r","y","_","m","i","n","_","s","t","r","e","e","t","_","r","e","a","r","_","y","a","r","d","_","f","t">>,
      max_building_coverage_percent |-> <<"m","a","x","_","b","u","i","l","d","i","n","g","_","c","o","v","e","r","a","g","e","_","p","e","r","c","e","n","t">>,
      building_coverage |-> <<"b","u","i","l","d","i","n","g","_","c","o","v","e","r","a","g","e">>,
      coverage_percent |-> <<"c","o","v","e","r","a","g","e","_","p","e","r","c","e","n","t">>,
      max_coverage |-> <<"m","a","x","_","c","o","v","e","r","a","g","e">>,
      max_lot_coverage_percent |-> <<"m","a","x","_","l","o","t","_","c","o","v","e","r","a","g","e","_","p","e","r","c","e","n","t">>,
      lot_coverage |-> <<"l","o","t","_","c","o","v","e","r","a","g","e">>,
      max_lot_coverage |-> <<"m","a","x","_","l","o","t","_","c","o","v","e","r","a","g","e">>,
      max_height_stories |-> <<"m","a","x","_","h","e","i","g","h","t","_","s","t","o","r","i","e","s">>,
      principal_max_height_stories |-> <<"p","r","i","n","c","i","p","a","l","_","m","a","x","_","h","e","i","g","h","t","_","s","t","o","r","i","e","s">>,
      height_stories |-> <<"h","e","i","g","h","t","_","s","t","o","r","i","e","s">>,
      max_stories |-> <<"m","a","x","_","s","t","o","r","i","e","s">>,
      max_height_feet_total |-> <<"m","a","x","_","h","e","i","g","h","t","_","f","e","e","t","_","t","o","t","a","l">>,
      principal_max_height_feet |-> <<"p","r","i","n","c","i","p","a","l","_","m","a","x","_","h","e","i","g","h","t","_","f","e","e","t">>,
      max_height_feet |-> <<"m","a","x","_","h","e","i","g","h","t","_","f","e","e","t">>,
      height_ft |-> <<"h","e","i","g","h","t","_","f","t">>,
      min_gross_floor_area_first_floor_sqft |-> <<"m","i","n","_","g","r","o","s","s","_","f","l","o","o","r","_","a","r","e","a","_","f","i","r","s","t","_","f","l","o","o","r","_","s","q","f","t">>,
      min_gross_floor_area_multistory_sqft |-> <<"m","i","n","_","g","r","o","s","s","_","f","l","o","o","r","_","a","r","e","a","_","m","u","l","t","i","s","t","o","r","y","_","s","q","f","t">>,
      max_gross_floor_area_all_structures_sqft |-> <<"m","a","x","_","g","r","o","s","s","_","f","l","o","o","r","_","a","r","e","a","_","a","l","l","_","s","t","r","u","c","t","u","r","e","s","_","s","q","f","t">>,
      maximum_far |-> <<"m","a","x","i","m","u","m","_","f","a","r">>,
      max_far |-> <<"m","a","x","_","f","a","r">>,
      far |-> <<"f","a","r">>,
      floor_area_ratio |-> <<"f","l","o","o","r","_","a","r","e","a","_","r","a","t","i","o">>,
      maximum_floor_area_ratio |-> <<"m","a","x","i","m","u","m","_","f","l","o","o","r","_","a","r","e","a","_","r","a","t","i","o">>,
      maximum_density_units_per_acre |-> <<"m","a","x","i","m","u","m","_","d","e","n","s","i","t","y","_","u","n","i","t","s","_","p","e","r","_","a","c","r","e">>,
      max_density |-> <<"m","a","x","_","d","e","n","s","i","t","y">>,
      units_per_acre |-> <<"u","n","i","t","s","_","p","e","r","_","a","c","r","e">>,
      zoning_district |-> <<"z","o","n","i","n","g","_","d","i","s","t","r","i","c","t">>,
      name |-> <<"n","a","m","e">>,
      frontage |-> <<"f","r","o","n","t","a","g","e">>,
      frontage_ft |-> <<"f","r","o","n","t","a","g","e","_","f","t">>,
      street_frontage |-> <<"s","t","r","e","e","t","_","f","r","o","n","t","a","g","e">>,
      width |-> <<"w","i","d","t","h">>,
      width_ft |-> <<"w","i","d","t","h","_","f","t">>,
      lot_width |-> <<"l","o","t","_","w","i","d","t","h">>,
      depth |-> <<"d","e","p","t","h">>,
      depth_ft |-> <<"d","e","p","t","h","_","f","t">>,
      lot_depth |-> <<"l","o","t","_","d","e","p","t","h">>
    ]
\* the characters of a key literal
\* the name a table spells as chars; "other" when it spells none so
name_in(table, chars) ==
    LET names == {name \in DOMAIN table : table[name] = chars}
    IN  IF names = {} THEN "other" ELSE CHOOSE name \in names : TRUE

\* the name of a key read from a document; a key the pipeline never names
\* is kept as "other"
key_name(chars) == name_in(Spell, chars)

----------------------------------------------------------------------------
(* json.loads: the decoder of the standard library, on characters          *)

JsonFail == [ok |-> FALSE, v |-> None, pos |-> 0]
JsonOk(v, pos) == [ok |-> TRUE, v |-> v, pos |-> pos]

IsJsonWs(c) == c \in {" ", "nl"}

\* the first position at or after i that holds no white space
skip_ws(s, i) ==
    LET rest == {j \in i..Len(s) : ~IsJsonWs(s[j])}
    IN  IF rest = {} THEN Len(s) + 1 ELSE CHOOSE j \in rest : \A k \in rest : j <= k

\* the \uXXXX escapes of the characters outside ASCII and of the control character
unicode_escape ==
    [sup1 |-> <<"0","0","b","9">>, sup2 |-> <<"0","0","b","2">>, sup3 |-> <<"0","0","b","3">>,
     ctl |-> <<"0","0","0","1">>]

\* the character an escape stands for
escaped_char(code) == CHOOSE c \in DOMAIN unicode_escape : unicode_escape[c] = code

\* the first quote, backslash or control character at or after j; 0 when
\* there is none
first_mark(s, j) ==
    LET marks == {k \in j..Len(s) : s[k] \in {QUOTE, BSLASH} \/ IsControl(s[k])}
    IN  IF marks = {} THEN 0 ELSE First(marks)

RECURSIVE scan_string(_, _, _)

\* the escape whose backslash stands at k, after the characters plain
scan_escape(s, k, plain) ==
    IF k + 1 > Len(s) THEN JsonFail
    ELSE IF s[k + 1] \in {QUOTE, BSLASH, "/"} THEN scan_string(s, k + 2, Append(plain, s[k + 1]))
    ELSE IF s[k + 1] = "n" THEN scan_string(s, k + 2, Append(plain, "nl"))
    ELSE IF s[k + 1] = "u" /\ k + 5 <= Len(s) /\ SubSeq(s, k + 2, k + 5) \in Range(unicode_escape)
         THEN scan_string(s, k + 6, Append(plain, escaped_char(SubSeq(s, k + 2, k + 5))))
    ELSE JsonFail

\* a string literal from position j up to the mark at k: its end, an
\* escape, or an error (no closing quote, a raw control character)
scan_to_mark(s, j, acc, k) ==
    IF k = 0 THEN JsonFail
    ELSE IF s[k] = QUOTE THEN JsonOk(Str(acc \o SubSeq(s, j, k - 1)), k + 1)
    ELSE IF s[k] = BSLASH THEN scan_escape(s, k, acc \o SubSeq(s, j, k - 1))
    ELSE JsonFail

\* the body of a string literal from position j (after the opening quote),
\* acc holding the characters read so far
scan_string(s, j, acc) == scan_to_mark(s, j, acc, first_mark(s, j))

\* the number whose digits run from d0 to d1 and whose fraction ends at f1
\* (f1 = d1 without a fraction)
number_of_digits(s, neg, d0, d1, f1) ==
    IF d1 < d0 THEN JsonFail
    ELSE JsonOk(Num((IF neg THEN -1 ELSE 1) * DigitsToInt(SubSeq(s, d0, d1) \o SubSeq(s, d1 + 2, f1)),
                    IF f1 > d1 THEN f1 - d1 - 1 ELSE 0),
                f1 + 1)

\* the end of the fraction after the integer digits that end at d1
fraction_end(s, d1) ==
    IF d1 + 1 <= Len(s) /\ s[d1 + 1] = "." /\ RunEnd(s, d1 + 2, IsDigit) >= d1 + 2
    THEN RunEnd(s, d1 + 2, IsDigit) ELSE d1

\* a number whose integer digits run from d0 to d1
number_to(s, neg, d0, d1) == number_of_digits(s, neg, d0, d1, fraction_end(s, d1))

\* a number literal after its sign: digits (. digits)?, or -Infinity
\* (exponents are not modelled)
number_from(s, neg, d0) ==
    IF neg /\ MatchAt(s, d0, <<"I","n","f","i","n","i","t","y">>) THEN JsonOk(Inf(TRUE), d0 + 8)
    ELSE number_to(s, neg, d0, RunEnd(s, d0, IsDigit))

\* a number literal at position i
parse_number(s, i) == number_from(s, s[i] = "-", IF s[i] = "-" THEN i + 1 ELSE i)

RECURSIVE parse_value(_, _)
RECURSIVE parse_members(_, _, _)
RECURSIVE parse_elements(_, _, _)

\* an object after one more member: its end, or the next member
members_continue(s, items, after) ==
    IF after > Len(s) THEN JsonFail
    ELSE IF s[after] = "}" THEN JsonOk(Dict(items), after + 1)
    ELSE IF s[after] = "," THEN parse_members(s, skip_ws(s, after + 1), items)
    ELSE JsonFail

\* a member whose value has been parsed
member_after_value(s, acc, key, val) ==
    IF ~val.ok THEN JsonFail
    ELSE members_continue(s, DictSet(acc, key_name(key), val.v), skip_ws(s, val.pos))

\* a member whose key has been read, at the place of its colon
member_after_key(s, acc, key, colon) ==
    IF colon <= Len(s) /\ s[colon] = ":"
    THEN member_after_value(s, acc, key, parse_value(s, skip_ws(s, colon + 1)))
    ELSE JsonFail

\* a member from its key, a string literal
member_from_key(s, acc, key) ==
    IF ~key.ok THEN JsonFail ELSE member_after_key(s, acc, key.v.s, skip_ws(s, key.pos))

\* the members of an object from position i, which must hold a key
parse_members(s, i, acc) ==
    IF i > Len(s) \/ s[i] # QUOTE THEN JsonFail
    ELSE member_from_key(s, acc, scan_string(s, i + 1, <<>>))

\* an array after one more element: its end, or the next element
elements_continue(s, items, after) ==
    IF after > Len(s) THEN JsonFail
    ELSE IF s[after] = "]" THEN JsonOk(List(items), after + 1)
    ELSE IF s[after] = "," THEN parse_elements(s, skip_ws(s, after + 1), items)
    ELSE JsonFail

\* an element whose value has been parsed
element_after_value(s, acc, val) ==
    IF ~val.ok THEN JsonFail
    ELSE elements_continue(s, Append(acc, val.v), skip_ws(s, val.pos))

\* the elements of an array from position i, which must hold a value
parse_elements(s, i, acc) == element_after_value(s, acc, parse_value(s, i))

\* an object or array whose first item, if any, stands at j
parse_items(s, j, close) ==
    IF j <= Len(s) /\ s[j] = close
    THEN JsonOk(IF close = "}" THEN Dict(<<>>) ELSE List(<<>>), j + 1)
    ELSE IF close = "}" THEN parse_members(s, j, <<>>)
    ELSE parse_elements(s, j, <<>>)

\* one JSON value starting at position i (no leading white space)
parse_value(s, i) ==
    IF i > Len(s) THEN JsonFail
    ELSE IF s[i] = QUOTE THEN scan_string(s, i + 1, <<>>)
    ELSE IF s[i] = "{" THEN parse_items(s, skip_ws(s, i + 1), "}")
    ELSE IF s[i] = "[" THEN parse_items(s, skip_ws(s, i + 1), "]")
    ELSE IF MatchAt(s, i, <<"n","u","l","l">>) THEN JsonOk(None, i + 4)
    ELSE IF MatchAt(s, i, <<"t","r","u","e">>) THEN JsonOk(Bool(TRUE), i + 4)
    ELSE IF MatchAt(s, i, <<"f","a","l","s","e">>) THEN JsonOk(Bool(FALSE), i + 5)
    ELSE IF MatchAt(s, i, <<"N","a","N">>) THEN JsonOk(NaN, i + 3)
    ELSE IF MatchAt(s, i, <<"I","n","f","i","n","i","t","y">>) THEN JsonOk(Inf(FALSE), i + 8)
    ELSE IF IsDigit(s[i]) \/ s[i] = "-" THEN parse_number(s, i)
    ELSE JsonFail

\* a document is one value with nothing but white space after it
whole_document(s, r) ==
    IF r.ok /\ skip_ws(s, r.pos) > Len(s) THEN [ok |-> TRUE, v |-> r.v]
    ELSE [ok |-> FALSE, v |-> None]

\* json.loads(s): ok = FALSE stands for json.JSONDecodeError
json_loads(s) == whole_document(s, parse_value(s, skip_ws(s, 1)))

----------------------------------------------------------------------------
(* json.dumps: the encoder of the standard library with its defaults        *)
(* (ensure_ascii, separators ", " and ": ")                                 *)

RECURSIVE encode_chars(_)
\* the body of a string literal
encode_chars(s) ==
    IF s = <<>> THEN <<>>
    ELSE (CASE Head(s) \in {QUOTE, BSLASH} -> <<BSLASH, Head(s)>>
            [] Head(s) = "nl" -> <<BSLASH, "n">>
            [] Head(s) \in DOMAIN unicode_escape -> <<BSLASH, "u">> \o unicode_escape[Head(s)]
            [] OTHER -> <<Head(s)>>) \o encode_chars(Tail(s))

\* a number as its literal: an int as its digits, a float with a fraction
\* as its digits around the point
encode_number(v) ==
    CASE v.t = "nan" -> <<"N","a","N">>
      [] v.t = "inf" -> (IF v.neg THEN <<"-">> ELSE <<>>) \o <<"I","n","f","i","n","i","t","y">>
      [] OTHER ->
            IF v.e = 0 THEN (IF v.m < 0 THEN <<"-">> ELSE <<>>) \o IntToDigits(IF v.m < 0 THEN -v.m ELSE v.m)
            ELSE LET mag == IF v.m < 0 THEN -v.m ELSE v.m
                 IN  (IF v.m < 0 THEN <<"-">> ELSE <<>>) \o IntToDigits(mag \div Pow10(v.e)) \o <<".">> \o
                     SubSeq(IntToDigits(Pow10(v.e) + (mag % Pow10(v.e))), 2, v.e + 1)

RECURSIVE json_dumps(_)
RECURSIVE encode_items(_, _)

\* the items of a list (keyed = FALSE) or dict (keyed = TRUE), comma separated
encode_items(items, keyed) ==
    IF items = <<>> THEN <<>>
    ELSE (IF keyed THEN <<QUOTE>> \o encode_chars(Spell[Head(items).k]) \o <<QUOTE, ":", " ">> \o json_dumps(Head(items).v)
          ELSE json_dumps(Head(items))) \o
         (IF Len(items) > 1 THEN <<",", " ">> ELSE <<>>) \o encode_items(Tail(items), keyed)

\* json.dumps(v)
json_dumps(v) ==
    CASE v.t = "null" -> <<"n","u","l","l">>
      [] v.t = "bool" -> IF v.b THEN <<"t","r","u","e">> ELSE <<"f","a","l","s","e">>
      [] v.t = "str" -> <<QUOTE>> \o encode_chars(v.s) \o <<QUOTE>>
      [] v.t = "list" -> <<"[">> \o encode_items(v.items, FALSE) \o <<"]">>
      [] v.t = "dict" -> <<"{">> \o encode_items(v.items, TRUE) \o <<"}">>
      [] OTHER -> encode_number(v)

----------------------------------------------------------------------------
(* The literals of requirements_processor.py                               *)

UNKNOWN_ZONE == <<"U","n","k","n","o","w","n","_","Z","o","n","e">>
UNKNOWN_COUNTY == <<"U","n","k","n","o","w","n"," ","C","o","u","n","t","y">>
PENDING_EXTRACTION == <<"P","E","N","D","I","N","G","_","E","X","T","R","A","C","T","I","O","N">>
DEFAULT_STATE == <<"N","J">>
AI_EXTRACTED == <<"A","I","_","E","x","t","r","a","c","t","e","d">>

----------------------------------------------------------------------------
(* Exceptions, and the conversions float() and int()                       *)

\* a raised exception, as the outcome of evaluating an expression
Raise(exc) == [t |-> "raise", exc |-> exc]
IsRaise(v) == v.t = "raise"

\* the number written by the digits of body, whose integer part ends at d1
\* and whose fraction (after a point at d1 + 1) ends at f1; f1 = d1 without
\* a point
float_of_digits(body, neg, d1, f1) ==
    LET nFrac == IF f1 > d1 THEN f1 - d1 - 1 ELSE 0
        digits == SubSeq(body, 1, d1) \o SubSeq(body, d1 + 2, f1)
    IN  IF d1 + nFrac >= 1 /\ f1 = Len(body)
        THEN Num(IF neg THEN -DigitsToInt(digits) ELSE DigitsToInt(digits), nFrac)
        ELSE Raise("ValueError")

\* the same once the end of the integer part is known
float_of_parts(body, neg, d1) ==
    float_of_digits(body, neg, d1,
        IF d1 + 1 <= Len(body) /\ body[d1 + 1] = "." THEN RunEnd(body, d1 + 2, IsDigit) ELSE d1)

\* float() of the text after the sign: nan / inf / infinity in any letter
\* case, or digits with an optional point (exponents are not modelled)
float_of_unsigned(body, low, neg) ==
    IF low = <<"n","a","n">> THEN NaN
    ELSE IF low \in {<<"i","n","f">>, <<"i","n","f","i","n","i","t","y">>} THEN Inf(neg)
    ELSE float_of_parts(body, neg, RunEnd(body, 1, IsDigit))

\* float() of a stripped text
float_of_stripped(s) ==
    IF s # <<>> /\ s[1] \in {"+", "-"}
    THEN float_of_unsigned(SubSeq(s, 2, Len(s)), Lower(SubSeq(s, 2, Len(s))), s[1] = "-")
    ELSE float_of_unsigned(s, Lower(s), FALSE)

\* float(s) of a str: surrounding white space and a sign are accepted
float_of_str(s0) == float_of_stripped(Strip(s0))

\* float(value)
py_float(v) ==
    CASE v.t = "str" -> float_of_str(v.s)
      [] v.t \in {"num", "nan", "inf"} -> v
      [] v.t = "bool" -> Num(IF v.b THEN 1 ELSE 0, 0)
      [] OTHER -> Raise("TypeError")

\* the integer part of a finite number, rounded toward zero
Trunc(v) == IF v.m >= 0 THEN v.m \div Pow10(v.e) ELSE -((-v.m) \div Pow10(v.e))

\* int() of the digits after the sign
int_of_digits(body, neg) ==
    IF body # <<>> /\ \A i \in 1..Len(body) : IsDigit(body[i])
    THEN Num(IF neg THEN -DigitsToInt(body) ELSE DigitsToInt(body), 0)
    ELSE Raise("ValueError")

\* int() of a stripped text
int_of_stripped(s) ==
    IF s # <<>> /\ s[1] \in {"+", "-"} THEN int_of_digits(SubSeq(s, 2, Len(s)), s[1] = "-")
    ELSE int_of_digits(s, FALSE)

\* int(s) of a str: white space, a sign and decimal digits only
int_of_str(s0) == int_of_stripped(Strip(s0))

\* int(value)
py_int(v) ==
    CASE v.t = "str" -> int_of_str(v.s)
      [] v.t = "num" -> Num(Trunc(v), 0)
      [] v.t = "bool" -> Num(IF v.b THEN 1 ELSE 0, 0)
      [] v.t = "nan" -> Raise("ValueError")
      [] v.t = "inf" -> Raise("OverflowError")
      [] OTHER -> Raise("TypeError")

\* str(n) of an int
IntStr(n) == IF n < 0 THEN <<"-">> \o IntToDigits(-n) ELSE IntToDigits(n)

\* str(value): exact for str, bool, None and whole numbers; a number with a
\* fraction prints its digits around the point; a list or dict prints as its
\* brackets only
py_str(v) ==
    CASE v.t = "str" -> v.s
      [] v.t = "null" -> <<"N","o","n","e">>
      [] v.t = "bool" -> IF v.b THEN <<"T","r","u","e">> ELSE <<"F","a","l","s","e">>
      [] v.t = "num" ->
            IF v.e = 0 THEN IntStr(v.m)
            ELSE IntStr(Trunc(v)) \o <<".">> \o
                 SubSeq(IntToDigits(Pow10(v.e) + ((IF v.m < 0 THEN -v.m ELSE v.m) % Pow10(v.e))), 2, v.e + 1)
      [] v.t = "nan" -> <<"n","a","n">>
      [] v.t = "inf" -> IF v.neg THEN <<"-","i","n","f">> ELSE <<"i","n","f">>
      [] v.t = "list" -> <<"[","]">>
      [] OTHER -> <<"{","}">>

\* x <= v for a finite number v and an integer x
IntLeq(x, v) == x * Pow10(v.e) <= v.m
\* v <= x
LeqInt(v, x) == v.m <= x * Pow10(v.e)

\* sub in s (substring test)
Contains(s, sub) == \E i \in 1..(Len(s) - Len(sub) + 1) : MatchAt(s, i, sub)

----------------------------------------------------------------------------
(* Footnote-marker stripping                                               *)

\* re.sub(r'[sup digits]+', '', s)
sub_superscripts(s) == SelectSeq(s, LAMBDA c : c \notin SuperscriptChars)

RECURSIVE sub_caret_digits(_, _)
\* re.sub(r'\^[0-9]+', '', s), from position i
sub_caret_digits(s, i) ==
    IF i > Len(s) THEN <<>>
    ELSE IF s[i] = "^" /\ RunEnd(s, i + 1, IsDigit) >= i + 1
         THEN sub_caret_digits(s, RunEnd(s, i + 1, IsDigit) + 1)
         ELSE <<s[i]>> \o sub_caret_digits(s, i + 1)

RECURSIVE sub_paren_digits(_, _)
\* re.sub(r'\([0-9]+\)', '', s), from position i
sub_paren_digits(s, i) ==
    LET e == RunEnd(s, i + 1, IsDigit)
    IN  IF i > Len(s) THEN <<>>
        ELSE IF s[i] = "(" /\ e >= i + 1 /\ e + 1 <= Len(s) /\ s[e + 1] = ")"
             THEN sub_paren_digits(s, e + 2)
             ELSE <<s[i]>> \o sub_paren_digits(s, i + 1)

\* the three substitutions, in the order both cleaners apply them
strip_footnote_markers(s) ==
    sub_paren_digits(sub_caret_digits(sub_superscripts(s), 1), 1)

\* _clean_zone_name_footnotes
clean_zone_name_footnotes(zone_name) == Strip(strip_footnote_markers(zone_name))

\* str.isdigit() on a string without superscripts
IsDigitStr(s) == s # <<>> /\ \A i \in 1..Len(s) : IsDigit(s[i])

\* the two-digit markers of the second contamination pattern (line 578)
TwoDigitMarks ==
    {<<"1","0">>, <<"1","1">>, <<"1","2">>, <<"2","0">>, <<"2","1">>,
     <<"2","2">>, <<"3","0">>, <<"3","1">>, <<"3","2">>}

\* 1000 <= int(candidate) <= 50000
candidate_in_range(n) == 1000 <= n /\ n <= 50000

\* lines 560-589: a number over 50000 that is a footnote digit run into a
\* plausible value loses the digit; num_str is cleaned without commas and
\* spaces
drop_contaminating_digit(cleaned, num_str) ==
    IF IsDigitStr(num_str) /\ Len(num_str) >= 4 /\ DigitsToInt(num_str) > 50000
    THEN IF Len(num_str) = 5 /\ num_str[1] \in {"1","2","3","4","5","6","7","8","9"}
         THEN IF candidate_in_range(DigitsToInt(SubSeq(num_str, 2, Len(num_str))))
              THEN SubSeq(num_str, 2, Len(num_str)) ELSE cleaned
         ELSE IF Len(num_str) = 6 /\ SubSeq(num_str, 1, 2) \in TwoDigitMarks
                 /\ candidate_in_range(DigitsToInt(SubSeq(num_str, 3, Len(num_str))))
              THEN SubSeq(num_str, 3, Len(num_str)) ELSE cleaned
    ELSE cleaned

\* the cleaned string without ',' and ' ' (line 558)
without_separators(cleaned) == SelectSeq(cleaned, LAMBDA c : c \notin {",", " "})

\* the contamination test applied to a cleaned string
clean_contamination(cleaned) == drop_contaminating_digit(cleaned, without_separators(cleaned))

\* _clean_numeric_footnotes: the cleaned string that float() is given
clean_numeric_footnotes(value) == clean_contamination(strip_footnote_markers(Strip(value)))

\* the value a coercion gives, None when it raised one of the exceptions caught
caught_as_none(r, caught) == IF IsRaise(r) /\ r.exc \in caught THEN None ELSE r

\* _safe_numeric
safe_numeric(value) ==
    IF IsNone(value) \/ value = Str(<<"n","u","l","l">>) THEN None
    ELSE caught_as_none(IF IsStr(value) THEN float_of_str(clean_numeric_footnotes(value.s))
                        ELSE py_float(value),
                        {"ValueError", "TypeError"})

\* _safe_integer: only ValueError and TypeError are caught, so the
\* OverflowError of int(infinity) leaves the function
safe_integer(value) ==
    IF IsNone(value) \/ value = Str(<<"n","u","l","l">>) THEN None
    ELSE caught_as_none(py_int(value), {"ValueError", "TypeError"})

----------------------------------------------------------------------------
(* Field Mapper                                                            *)

\* the keys _extract_zone_name tries, in order
possible_zone_keys == <<"zone_name", "zone", "district", "zoning_district", "name">>

\* the cleaned name under the first of the keys at the positions hits
zone_name_at(zone_data, hits) ==
    IF hits = {} THEN Str(UNKNOWN_ZONE)
    ELSE Str(clean_zone_name_footnotes(Strip(py_str(DictAt(zone_data, possible_zone_keys[First(hits)])))))

\* whether a key holds a name: a truthy value whose str() is not blank
holds_name(value) == Truthy(value) /\ Strip(py_str(value)) # <<>>

\* _extract_zone_name: the first of the zone keys whose value is truthy and
\* not blank, stripped and cleaned of footnote markers
extract_zone_name(zone_data) ==
    IF ~IsDict(zone_data) THEN Raise("AttributeError")
    ELSE zone_name_at(zone_data,
            {i \in 1..Len(possible_zone_keys) : holds_name(DictGet(zone_data, possible_zone_keys[i], None))})

\* the dict under the first of the keys at the positions hits, else {}
nested_dict_at(data, possible_keys, hits) ==
    IF hits = {} THEN Dict(<<>>) ELSE DictAt(data, possible_keys[First(hits)])

\* _get_nested_dict: the first key that is present with a dict value, else {}
get_nested_dict(data, possible_keys) ==
    nested_dict_at(data, possible_keys,
        {i \in 1..Len(possible_keys) : DictHas(data, possible_keys[i]) /\ IsDict(DictAt(data, possible_keys[i]))})

\* the value at the first of the places hits (dictionary, key), else None
field_value_at(nested_dicts, field_keys, hits) ==
    IF hits = {} THEN None
    ELSE LET first == CHOOSE p \in hits : \A q \in hits :
                        p[1] < q[1] \/ (p[1] = q[1] /\ p[2] <= q[2])
         IN  DictAt(nested_dicts[first[1]], field_keys[first[2]])

\* _extract_field_value: dictionaries in order, keys in order within each;
\* the first key that is present decides, whatever its value
extract_field_value(nested_dicts, field_keys) ==
    field_value_at(nested_dicts, field_keys,
        {p \in (1..Len(nested_dicts)) \X (1..Len(field_keys)) :
            DictHas(nested_dicts[p[1]], field_keys[p[2]])})

\* a value that is kept as found, with no fallback
without_fallback(value, fallback) == value

\* the value, or the fallback when the value is None and the fallback is not
with_fallback(value, fallback) == IF IsNone(value) /\ ~IsNone(fallback) THEN fallback ELSE value

\* _get_frontage_with_fallback
get_frontage_with_fallback(interior, zone_data) ==
    safe_numeric(extract_field_value(<<interior, zone_data>>,
        <<"min_lot_frontage_ft", "interior_min_lot_frontage_ft", "frontage", "frontage_ft", "street_frontage">>))

\* _get_width_with_frontage_fallback
get_width_with_frontage_fallback(interior, zone_data) ==
    with_fallback(
        safe_numeric(extract_field_value(<<interior, zone_data>>,
            <<"min_lot_width_ft", "interior_min_lot_width_ft", "width", "width_ft", "lot_width">>)),
        get_frontage_with_fallback(interior, zone_data))

\* _get_depth_with_fallback
get_depth_with_fallback(interior, zone_data) ==
    with_fallback(
        safe_numeric(extract_field_value(<<interior, zone_data>>,
            <<"min_lot_depth_ft", "interior_min_lot_depth_ft", "depth", "depth_ft", "lot_depth">>)),
        get_width_with_frontage_fallback(interior, zone_data))

\* _get_accessory_setback_with_fallback: the principal keys are looked up at
\* the top level of the zone record only
get_accessory_setback_with_fallback(accessory_yards, zone_data, principal_keys, field_keys) ==
    with_fallback(
        safe_numeric(extract_field_value(<<accessory_yards, zone_data>>, field_keys)),
        safe_numeric(extract_field_value(<<zone_data>>, principal_keys)))

----------------------------------------------------------------------------
(* Contamination Corrector                                                 *)

\* the table contamination_patterns
contamination_patterns ==
    [n \in {15000, 28000, 312000, 110000, 115000, 27500, 36000} |->
        CASE n = 15000 -> 5000
          [] n = 28000 -> 8000
          [] n = 312000 -> 12000
          [] n = 110000 -> 10000
          [] n = 115000 -> 15000
          [] n = 27500 -> 7500
          [] n = 36000 -> 6000]

\* the digit the first superscript of the zone name stands for, else the
\* digit of an R-1 / R1, R-2 / R2, R-3 / R3 the name contains; <<>> when
\* there is none.  sup holds the positions of the superscripts.
footnote_digit_at(zone_name, sup) ==
    IF sup # {}
    THEN (CASE zone_name[First(sup)] = "sup1" -> <<"1">>
            [] zone_name[First(sup)] = "sup2" -> <<"2">>
            [] OTHER -> <<"3">>)
    ELSE IF Contains(zone_name, <<"R","-","1">>) \/ Contains(zone_name, <<"R","1">>) THEN <<"1">>
    ELSE IF Contains(zone_name, <<"R","-","2">>) \/ Contains(zone_name, <<"R","2">>) THEN <<"2">>
    ELSE IF Contains(zone_name, <<"R","-","3">>) \/ Contains(zone_name, <<"R","3">>) THEN <<"3">>
    ELSE <<>>

\* the digit the zone name points at
footnote_digit_of(zone_name) ==
    footnote_digit_at(zone_name, {i \in 1..Len(zone_name) : zone_name[i] \in SuperscriptChars})

\* the patterns of _fix_contaminated_lot_area on a finite area: area_str is
\* str(int(cleaned_area)) and candidate the int of area_str[1:]
fix_area_patterns(cleaned_area, area_str, candidate, zone_name) ==
    IF cleaned_area.e = 0 /\ cleaned_area.m \in DOMAIN contamination_patterns
    THEN Num(contamination_patterns[cleaned_area.m], 0)
    ELSE IF Len(area_str) = 5 /\ area_str[1] \in {"1", "2", "3"}
            /\ 3000 <= candidate /\ candidate <= 20000
         THEN Num(candidate, 0)
    ELSE IF ~IsStr(zone_name) THEN cleaned_area
    ELSE IF Len(area_str) > 1 /\ <<area_str[1]>> = footnote_digit_of(zone_name.s)
            /\ 1000 <= candidate /\ candidate <= 50000
         THEN Num(candidate, 0)
    ELSE IF ~LeqInt(cleaned_area, 100000) /\ Len(area_str) > 4
            /\ 1000 <= candidate /\ candidate <= 50000
         THEN Num(candidate, 0)
    ELSE cleaned_area

\* the same with the digits of the area taken apart
fix_area_digits(cleaned_area, area_str, zone_name) ==
    fix_area_patterns(cleaned_area, area_str, DigitsToInt(SubSeq(area_str, 2, Len(area_str))), zone_name)

\* _fix_contaminated_lot_area once the area is coerced.  int() of NaN or of
\* an infinity, and the regular expressions on a zone name that is not a
\* str, raise into the handler of the method, which returns the coerced area
fix_cleaned_area(cleaned_area, zone_name) ==
    IF IsNone(cleaned_area) THEN None
    ELSE IF ~IsFinite(cleaned_area) THEN cleaned_area
    ELSE fix_area_digits(cleaned_area, IntStr(Trunc(cleaned_area)), zone_name)

\* _fix_contaminated_lot_area.  zone_name is the value the caller passes, a
\* Python value
fix_contaminated_lot_area(lot_area_value, zone_name) ==
    IF IsNone(lot_area_value) THEN None
    ELSE fix_cleaned_area(safe_numeric(lot_area_value), zone_name)

----------------------------------------------------------------------------
(* The log records of the corrections: the logger calls that carry a value *)
(* before and a value after, for the zone name and the interior lot area   *)
(* of a record                                                             *)

\* a log record "before -> after"
Correction(before, after) == [before |-> before, after |-> after]

\* lines 659-660: _clean_zone_name_footnotes logs a name it changed
logged_by_clean_zone_name(zone_name) ==
    IF clean_zone_name_footnotes(zone_name) # zone_name
    THEN {Correction(Str(zone_name), Str(clean_zone_name_footnotes(zone_name)))}
    ELSE {}

\* lines 640-646: _extract_zone_name cleans the stripped name under the
\* first key that holds one
logged_by_zone_name_at(zone_data, hits) ==
    IF hits = {} THEN {}
    ELSE logged_by_clean_zone_name(Strip(py_str(DictAt(zone_data, possible_zone_keys[First(hits)]))))

\* the log records of _extract_zone_name
logged_by_extract_zone_name(zone_data) ==
    IF ~IsDict(zone_data) THEN {}
    ELSE logged_by_zone_name_at(zone_data,
            {i \in 1..Len(possible_zone_keys) : holds_name(DictGet(zone_data, possible_zone_keys[i], None))})

\* lines 552-589: _clean_numeric_footnotes logs original_value and the
\* candidate where it drops a contaminating digit (lines 574 and 582); the
\* other returns of its try block log nothing, and the handler of lines
\* 591-595, which would log the stripped markers, is entered by no string
\* of digits
logged_by_clean_numeric(original_value, cleaned, returned) ==
    IF returned # cleaned THEN {Correction(Str(original_value), Str(returned))} ELSE {}

\* the log records of _safe_numeric: those of the cleaning of a str
logged_by_safe_numeric(value) ==
    IF IsStr(value) /\ value # Str(<<"n","u","l","l">>)
    THEN logged_by_clean_numeric(Strip(value.s), strip_footnote_markers(Strip(value.s)),
                                 clean_numeric_footnotes(value.s))
    ELSE {}

\* lines 757-801: each rule of the corrector logs cleaned_area and the value
\* it returns; the zone name is cleaned, and a change of it logged, once the
\* table and the five-digit rule have not applied (line 767)
logged_by_area_patterns(cleaned_area, area_str, candidate, zone_name) ==
    IF cleaned_area.e = 0 /\ cleaned_area.m \in DOMAIN contamination_patterns
    THEN {Correction(cleaned_area, Num(contamination_patterns[cleaned_area.m], 0))}
    ELSE IF Len(area_str) = 5 /\ area_str[1] \in {"1", "2", "3"}
            /\ 3000 <= candidate /\ candidate <= 20000
         THEN {Correction(cleaned_area, Num(candidate, 0))}
    ELSE IF ~IsStr(zone_name) THEN {}
    ELSE logged_by_clean_zone_name(zone_name.s)
         \cup (IF Len(area_str) > 1 /\ <<area_str[1]>> = footnote_digit_of(zone_name.s)
                  /\ 1000 <= candidate /\ candidate <= 50000
               THEN {Correction(cleaned_area, Num(candidate, 0))}
               ELSE IF ~LeqInt(cleaned_area, 100000) /\ Len(area_str) > 4
                       /\ 1000 <= candidate /\ candidate <= 50000
                    THEN {Correction(cleaned_area, Num(candidate, 0))}
               ELSE {})

\* the same with the digits of the area taken apart
logged_by_area_digits(cleaned_area, area_str, zone_name) ==
    logged_by_area_patterns(cleaned_area, area_str,
                            DigitsToInt(SubSeq(area_str, 2, Len(area_str))), zone_name)

\* the log records of the corrector once the area is coerced
logged_by_cleaned_area(cleaned_area, zone_name) ==
    IF IsNone(cleaned_area) \/ ~IsFinite(cleaned_area) THEN {}
    ELSE logged_by_area_digits(cleaned_area, IntStr(Trunc(cleaned_area)), zone_name)

\* the log records of _fix_contaminated_lot_area
logged_by_fix_contaminated_lot_area(lot_area_value, zone_name) ==
    IF IsNone(lot_area_value) THEN {}
    ELSE logged_by_safe_numeric(lot_area_value)
         \cup logged_by_cleaned_area(safe_numeric(lot_area_value), zone_name)

\* the log records of _insert_zone_requirements for the zone name (line
\* 404) and the interior lot area (lines 409-413) of a zone record
logged_corrections(zone_data) ==
    logged_by_extract_zone_name(zone_data)
    \cup logged_by_fix_contaminated_lot_area(
            extract_field_value(<<get_nested_dict(zone_data, <<"interior_lots", "interior", "interior_lot">>), zone_data>>,
                <<"min_lot_area_sqft", "interior_min_lot_area_sqft", "lot_area", "area_sqft", "minimum_area_sqft">>),
            DictGet(zone_data, "zone_name", Str(<<>>)))

----------------------------------------------------------------------------
(* The record _insert_zone_requirements builds (lines 388-509).  The three *)
(* timestamp fields, which hold the wall clock, are left out.              *)

\* the numeric requirement fields of a record
NumericFields ==
    {"interior_min_lot_area_sqft", "interior_min_lot_frontage_ft", "interior_min_lot_width_ft",
     "interior_min_lot_depth_ft", "corner_min_lot_area_sqft", "corner_min_lot_frontage_ft",
     "corner_min_lot_width_ft", "corner_min_lot_depth_ft", "min_circle_diameter_ft",
     "buildable_lot_area_sqft", "principal_front_yard_ft", "principal_side_yard_ft",
     "principal_street_side_yard_ft", "principal_rear_yard_ft", "principal_street_rear_yard_ft",
     "accessory_front_yard_ft", "accessory_side_yard_ft", "accessory_street_side_yard_ft",
     "accessory_rear_yard_ft", "accessory_street_rear_yard_ft", "max_building_coverage_percent",
     "max_lot_coverage_percent", "max_height_stories", "max_height_feet_total",
     "min_gross_floor_area_first_floor_sqft", "min_gross_floor_area_multistory_sqft",
     "max_gross_floor_area_all_structures_sqft", "maximum_far", "maximum_density_units_per_acre"}

\* nested.get(key) for one of the sub-objects
SubGet(nested, name) == DictGet(nested, name, None)

requirement_data(job_id, town, county, state, zone_data, extraction_confidence) ==
    LET interior == get_nested_dict(zone_data, <<"interior_lots", "interior", "interior_lot">>)
        corner == get_nested_dict(zone_data, <<"corner_lots", "corner", "corner_lot">>)
        lot_req == get_nested_dict(zone_data, <<"lot_requirements", "additional_lot_requirements", "lot_req">>)
        principal_yards == get_nested_dict(zone_data, <<"principal_building_yards", "principal_yards", "main_building_yards">>)
        accessory_yards == get_nested_dict(zone_data, <<"accessory_building_yards", "accessory_yards", "accessory">>)
        coverage == get_nested_dict(zone_data, <<"coverage_and_height", "coverage", "building_requirements">>)
        floor_area == get_nested_dict(zone_data, <<"floor_area", "floor_requirements", "area_requirements">>)
        intensity == get_nested_dict(zone_data, <<"development_intensity", "intensity", "density">>)
    IN  [ job_id |-> job_id,
          town |-> town,
          county |-> county,
          state |-> state,
          zone |-> extract_zone_name(zone_data).s,
          data_source |-> AI_EXTRACTED,
          extraction_confidence |-> extraction_confidence,
          interior_min_lot_area_sqft |-> fix_contaminated_lot_area(
              extract_field_value(<<interior, zone_data>>,
                  <<"min_lot_area_sqft", "interior_min_lot_area_sqft", "lot_area", "area_sqft", "minimum_area_sqft">>),
              DictGet(zone_data, "zone_name", Str(<<>>))),
          interior_min_lot_frontage_ft |-> get_frontage_with_fallback(interior, zone_data),
          interior_min_lot_width_ft |-> get_width_with_frontage_fallback(interior, zone_data),
          interior_min_lot_depth_ft |-> get_depth_with_fallback(interior, zone_data),
          corner_min_lot_area_sqft |-> safe_numeric(SubGet(corner, "min_lot_area_sqft")),
          corner_min_lot_frontage_ft |-> safe_numeric(SubGet(corner, "min_lot_frontage_ft")),
          corner_min_lot_width_ft |-> safe_numeric(SubGet(corner, "min_lot_width_ft")),
          corner_min_lot_depth_ft |-> safe_numeric(SubGet(corner, "min_lot_depth_ft")),
          min_circle_diameter_ft |-> safe_numeric(SubGet(lot_req, "min_circle_diameter_ft")),
          buildable_lot_area_sqft |-> safe_numeric(SubGet(lot_req, "buildable_lot_area_sqft")),
          principal_front_yard_ft |-> safe_numeric(extract_field_value(<<principal_yards, zone_data>>,
              <<"principal_min_front_yard_ft", "front_yard_ft", "front_setback", "principal_front_yard_ft">>)),
          principal_side_yard_ft |-> safe_numeric(extract_field_value(<<principal_yards, zone_data>>,
              <<"principal_min_side_yard_ft", "side_yard_ft", "side_setback", "principal_side_yard_ft">>)),
          principal_street_side_yard_ft |-> safe_numeric(extract_field_value(<<principal_yards, zone_data>>,
              <<"principal_min_street_side_yard_ft", "street_side_yard_ft", "street_side_setback">>)),
          principal_rear_yard_ft |-> safe_numeric(extract_field_value(<<principal_yards, zone_data>>,
              <<"principal_min_rear_yard_ft", "rear_yard_ft", "rear_setback", "principal_rear_yard_ft">>)),
          principal_street_rear_yard_ft |-> safe_numeric(extract_field_value(<<principal_yards, zone_data>>,
              <<"principal_min_street_rear_yard_ft", "street_rear_yard_ft", "street_rear_setback">>)),
          accessory_front_yard_ft |-> get_accessory_setback_with_fallback(accessory_yards, zone_data,
              <<"principal_min_front_yard_ft", "front_yard_ft", "front_setback">>,
              <<"accessory_min_front_yard_ft", "accessory_front_yard_ft", "garage_front_setback", "outbuilding_front">>),
          accessory_side_yard_ft |-> get_accessory_setback_with_fallback(accessory_yards, zone_data,
              <<"principal_min_side_yard_ft", "side_yard_ft", "side_setback">>,
              <<"accessory_min_side_yard_ft", "accessory_side_yard_ft", "garage_side_setback", "outbuilding_side">>),
          accessory_street_side_yard_ft |-> safe_numeric(extract_field_value(<<accessory_yards, zone_data>>,
              <<"accessory_min_street_side_yard_ft", "accessory_street_side_yard_ft">>)),
          accessory_rear_yard_ft |-> get_accessory_setback_with_fallback(accessory_yards, zone_data,
              <<"principal_min_rear_yard_ft", "rear_yard_ft", "rear_setback">>,
              <<"accessory_min_rear_yard_ft", "accessory_rear_yard_ft", "garage_rear_setback", "outbuilding_rear">>),
          accessory_street_rear_yard_ft |-> safe_numeric(extract_field_value(<<accessory_yards, zone_data>>,
              <<"accessory_min_street_rear_yard_ft", "accessory_street_rear_yard_ft">>)),
          max_building_coverage_percent |-> safe_numeric(extract_field_value(<<coverage, zone_data>>,
              <<"max_building_coverage_percent", "building_coverage", "coverage_percent", "max_coverage">>)),
          max_lot_coverage_percent |-> safe_numeric(extract_field_value(<<coverage, zone_data>>,
              <<"max_lot_coverage_percent", "lot_coverage", "max_lot_coverage", "coverage">>)),
          max_height_stories |-> safe_integer(extract_field_value(<<coverage, zone_data>>,
              <<"principal_max_height_stories", "max_height_stories", "height_stories", "max_stories">>)),
          max_height_feet_total |-> safe_numeric(extract_field_value(<<coverage, zone_data>>,
              <<"principal_max_height_feet", "max_height_feet_total", "max_height_feet", "height_ft">>)),
          min_gross_floor_area_first_floor_sqft |-> safe_numeric(SubGet(floor_area, "min_gross_floor_area_first_floor_sqft")),
          min_gross_floor_area_multistory_sqft |-> safe_numeric(SubGet(floor_area, "min_gross_floor_area_multistory_sqft")),
          max_gross_floor_area_all_structures_sqft |-> safe_numeric(SubGet(floor_area, "max_gross_floor_area_all_structures_sqft")),
          maximum_far |-> safe_numeric(extract_field_value(<<intensity, zone_data>>,
              <<"maximum_far", "max_far", "far", "floor_area_ratio", "maximum_floor_area_ratio">>)),
          maximum_density_units_per_acre |-> safe_numeric(extract_field_value(<<intensity, zone_data>>,
              <<"maximum_density_units_per_acre", "max_density", "density", "units_per_acre">>)) ]

----------------------------------------------------------------------------
(* Response Parser (process_grok_response, lines 153-188)                  *)

RECURSIVE sub_trailing_commas(_, _)
\* re.sub(r',(\s*[}\]])', r'\1', s), from position i
sub_trailing_commas(s, i) ==
    LET w == RunEnd(s, i + 1, IsSpace)
    IN  IF i > Len(s) THEN <<>>
        ELSE IF s[i] = "," /\ w + 1 <= Len(s) /\ s[w + 1] \in {"}", "]"}
             THEN SubSeq(s, i + 1, w + 1) \o sub_trailing_commas(s, w + 2)
             ELSE <<s[i]>> \o sub_trailing_commas(s, i + 1)

\* re.sub(r'[\x00-\x1F\x7F-\x9F]', '', s)
sub_control_chars(s) == SelectSeq(s, LAMBDA c : ~IsControl(c))

\* whether the name re is bound where _fix_json_string looks it up: the
\* module imports logging, json, typing and datetime (lines 5-8); every
\* "import re" of the file is local to another method
re_is_bound == FALSE

\* _fix_json_string: its first statement reads the global name re
fix_json_string(json_str) ==
    IF re_is_bound THEN Str(sub_control_chars(sub_trailing_commas(json_str, 1)))
    ELSE Raise("NameError")

\* the outcomes of parsing: a document, the decision to run the regex
\* fallback, or an exception that is not a JSONDecodeError
Parsed(data) == [kind |-> "parsed", data |-> data]
Fallback == [kind |-> "fallback", data |-> None]
Raised(exception) == [kind |-> "raise", data |-> exception]

\* lines 167-175: the cleaned slice is parsed, else the fallback runs
parse_fixed(second) == IF second.ok THEN Parsed(second.v) ELSE Fallback

\* lines 164-166: the slice is cleaned, which may raise
parse_slice(fixed) == IF IsRaise(fixed) THEN Raised(fixed) ELSE parse_fixed(json_loads(fixed.s))

\* lines 159-175: the text from the first "{" to the last "}", if there is
\* such a slice
parse_braces(grok_response, json_start, json_end) ==
    IF json_start # 0 /\ json_end >= json_start
    THEN parse_slice(fix_json_string(SubSeq(grok_response, json_start, json_end)))
    ELSE Fallback

\* lines 154-158: the text parsed directly, else its brace slice
parse_direct(grok_response, direct) ==
    IF direct.ok THEN Parsed(direct.v)
    ELSE parse_braces(grok_response, Find(grok_response, "{"), RFind(grok_response, "}"))

\* lines 154-177 on a str
parse_text(grok_response) == parse_direct(grok_response, json_loads(grok_response))

\* lines 183-188: the inner document, else the fallback
parse_inner(inner) == IF inner.ok THEN Parsed(inner.v) ELSE Fallback

\* lines 179-188: a wrapper's raw_response string is parsed directly, once
unwrap_raw_response(parsed_data) ==
    IF IsDict(parsed_data) /\ DictHas(parsed_data, "raw_response")
       /\ IsStr(DictAt(parsed_data, "raw_response"))
    THEN parse_inner(json_loads(DictAt(parsed_data, "raw_response").s))
    ELSE Parsed(parsed_data)

\* a parsed document is unwrapped
unwrap_parsed(first) == IF first.kind = "parsed" THEN unwrap_raw_response(first.data) ELSE first

\* lines 153-188 together: a response that is no str is taken as parsed
parse_response(grok_response) ==
    unwrap_parsed(IF IsStr(grok_response) THEN parse_text(grok_response.s) ELSE Parsed(grok_response))

----------------------------------------------------------------------------
(* Zone Collection Locator (lines 190-212)                                 *)

\* the keys a zone collection is looked up under, in order (line 192)
zone_collection_keys == <<"zones", "zoning_requirements", "requirements", "extracted_zones", "districts">>

\* the keys that mark a list as a zone collection (line 203)
zone_markers == <<"zone", "district", "zoning", "Zone">>

\* lines 202-203: a non-empty list whose first element is a dict with a marker
looks_like_zones(value) ==
    /\ IsList(value) /\ Len(value.items) > 0 /\ IsDict(value.items[1])
    /\ \E m \in 1..Len(zone_markers) : DictHas(value.items[1], zone_markers[m])

\* lines 199-206: an empty collection gives way to the first value of the
\* document that looks like zones (scan holds the positions of such values)
zones_by_scan(parsed_data, zones, scan) ==
    IF ~Truthy(zones) /\ scan # {} THEN parsed_data.items[First(scan)].v ELSE zones

\* line 196: a collection found under a key is measured with len()
zones_measured(parsed_data, hits, zones) ==
    IF hits # {} /\ zones.t \notin {"list", "dict", "str"} THEN Raise("TypeError")
    ELSE zones_by_scan(parsed_data, zones,
            {i \in 1..Len(parsed_data.items) : looks_like_zones(parsed_data.items[i].v)})

\* lines 193-197: the value of the first key present (hits holds the
\* positions of the keys present), [] when there is none
zones_by_key(parsed_data, hits) ==
    zones_measured(parsed_data, hits,
        IF hits = {} THEN List(<<>>) ELSE DictAt(parsed_data, zone_collection_keys[First(hits)]))

\* the zone collection of a parsed document.  A document that is no dict
\* raises before anything is stored: "key in" or the subscript fails on a
\* number, None or bool, and a list or str has no get (line 208).
locate_zones(parsed_data) ==
    IF ~IsDict(parsed_data) THEN Raise("TypeError")
    ELSE zones_by_key(parsed_data,
            {i \in 1..Len(zone_collection_keys) : DictHas(parsed_data, zone_collection_keys[i])})

\* what "for zone_data in zones" yields: the elements of a list, the keys of
\* a dict, the characters of a str
Iterate(zones) ==
    CASE zones.t = "list" -> zones.items
      [] zones.t = "dict" -> [i \in 1..Len(zones.items) |-> Str(Spell[zones.items[i].k])]
      [] OTHER -> [i \in 1..Len(zones.s) |-> Str(<<zones.s[i]>>)]

----------------------------------------------------------------------------
(* Location resolution (lines 214-245)                                     *)

\* value.strip() of a value that must be a str
StripValue(v) == IF IsStr(v) THEN Str(Strip(v.s)) ELSE Raise("AttributeError")

\* re.sub(r'[^a-zA-Z0-9_-]', '_', filename.split('.')[0])[:20]
clean_name(filename) ==
    LET dot == Find(filename, ".")
        stem == IF dot = 0 THEN filename ELSE SubSeq(filename, 1, dot - 1)
        Keep(c) == IsAlpha(c) \/ IsDigit(c) \/ c \in {"_", "-"}
    IN  Prefix([i \in 1..Len(stem) |-> IF Keep(stem[i]) THEN stem[i] ELSE "_"], 20)

\* lines 219-235: the town records are stored under
resolve_town(town, parsed_data, document_data, job_id) ==
    LET extracted_town == DictGet(parsed_data, "extracted_town", None)
        filename == DictGet(document_data, "original_filename",
                            DictGet(document_data, "filename", Str(<<>>)))
    IN  IF town # <<>> /\ Lower(town) \notin {<<"u","n","k","n","o","w","n">>,
                <<"p","e","n","d","i","n","g","_","e","x","t","r","a","c","t","i","o","n">>}
        THEN Str(town)
        ELSE IF Truthy(extracted_town)
             THEN IF ~IsStr(extracted_town) THEN Raise("AttributeError")
                  ELSE IF Strip(extracted_town.s) # <<>> THEN Str(Strip(extracted_town.s))
                  ELSE IF Truthy(filename)
                       THEN IF IsStr(filename) THEN Str(<<"D","o","c","_">> \o clean_name(filename.s))
                            ELSE Raise("AttributeError")
                       ELSE Str(<<"J","o","b","_">> \o Prefix(job_id, 8))
        ELSE IF Truthy(filename)
             THEN IF IsStr(filename) THEN Str(<<"D","o","c","_">> \o clean_name(filename.s))
                  ELSE Raise("AttributeError")
        ELSE Str(<<"J","o","b","_">> \o Prefix(job_id, 8))

\* lines 237-243
resolve_county(county, parsed_data) ==
    LET extracted_county == DictGet(parsed_data, "extracted_county", None)
    IN  IF county # <<>> /\ county # UNKNOWN_COUNTY THEN Str(county)
        ELSE IF Truthy(extracted_county)
             THEN IF ~IsStr(extracted_county) THEN Raise("AttributeError")
                  ELSE IF Strip(extracted_county.s) # <<>> THEN Str(Strip(extracted_county.s))
                  ELSE Str(UNKNOWN_COUNTY)
        ELSE Str(UNKNOWN_COUNTY)

\* f"{town}_{county}_{state}_{zone_name}".lower()
zone_key(town, county, state, zone_name) ==
    Lower(town \o <<"_">> \o county \o <<"_">> \o state \o <<"_">> \o zone_name)

----------------------------------------------------------------------------
(* Regex fallback (_extract_zones_fallback, lines 289-367)                 *)

\* [A-Z0-9\-] under re.IGNORECASE
IsZoneCodeChar(c) == IsAlpha(c) \/ IsDigit(c) \/ c = "-"
\* [:\s]
IsSeparator(c) == c = ":" \/ IsSpace(c)

\* where r'(?:zone|district)[:\s]*([A-Z0-9\-]+)' under re.IGNORECASE matches
\* at position i of s (low is s.lower()): the bounds of its group, or
\* from = 0 when it does not match
keyword_at(s, low, i) ==
    LET kw == IF MatchAt(low, i, <<"z","o","n","e">>) THEN 4
              ELSE IF MatchAt(low, i, <<"d","i","s","t","r","i","c","t">>) THEN 8 ELSE 0
        a == RunEnd(s, i + kw, IsSeparator)
        b == RunEnd(s, a + 1, IsZoneCodeChar)
    IN  IF kw > 0 /\ b >= a + 1 THEN [from |-> a + 1, to |-> b] ELSE [from |-> 0, to |-> 0]

\* the same for r'([A-Z]{1,2}-\d+)'
letters_dash_digits_at(s, i) ==
    LET At(j) == IF j <= Len(s) THEN s[j] ELSE ""
        two == IsAlpha(At(i)) /\ IsAlpha(At(i + 1)) /\ At(i + 2) = "-" /\ IsDigit(At(i + 3))
        one == IsAlpha(At(i)) /\ At(i + 1) = "-" /\ IsDigit(At(i + 2))
    IN  IF two \/ one THEN [from |-> i, to |-> RunEnd(s, IF two THEN i + 3 ELSE i + 2, IsDigit)]
        ELSE [from |-> 0, to |-> 0]

\* the same for r'([RC]-\d+)'
rc_dash_digits_at(s, i) ==
    LET At(j) == IF j <= Len(s) THEN s[j] ELSE ""
    IN  IF At(i) \in {"R", "C", "r", "c"} /\ At(i + 1) = "-" /\ IsDigit(At(i + 2))
        THEN [from |-> i, to |-> RunEnd(s, i + 2, IsDigit)]
        ELSE [from |-> 0, to |-> 0]

RECURSIVE findall(_, _, _)
\* re.findall of a pattern with one group from position i, given the match
\* at each position: the groups of the leftmost matches, each search
\* starting after the match before
findall(s, i, match_at) ==
    LET starts == {j \in i..Len(s) : match_at[j].from # 0}
        m == match_at[First(starts)]
    IN  IF starts = {} THEN <<>>
        ELSE <<SubSeq(s, m.from, m.to)>> \o findall(s, m.to + 1, match_at)

\* lines 332-341: the set zones_found
zones_found(grok_response) ==
    LET low == Lower(grok_response)
        Keyword == [i \in 1..Len(grok_response) |-> keyword_at(grok_response, low, i)]
        LettersDashDigits == [i \in 1..Len(grok_response) |-> letters_dash_digits_at(grok_response, i)]
        RcDashDigits == [i \in 1..Len(grok_response) |-> rc_dash_digits_at(grok_response, i)]
    IN  Range(findall(grok_response, 1, Keyword))
            \cup Range(findall(grok_response, 1, LettersDashDigits))
            \cup Range(findall(grok_response, 1, RcDashDigits))

\* lines 293-298: the location the fallback stores under.  Only "unknown" is
\* tested for, and the county and the state are not stripped.
fallback_location(job_id, document_data) ==
    LET municipality == DictGet(document_data, "municipality", None)
        town == IF Truthy(municipality) THEN StripValue(municipality) ELSE Str(<<>>)
        county == DictGet(document_data, "county", None)
        state == DictGet(document_data, "state", None)
    IN  [ town |-> IF IsRaise(town) THEN town
                   ELSE IF town.s = <<>> \/ Lower(town.s) = <<"u","n","k","n","o","w","n">>
                        THEN Str(<<"F","a","l","l","b","a","c","k","_","J","o","b","_">> \o Prefix(job_id, 8))
                        ELSE town,
          county |-> IF Truthy(county) THEN county ELSE Str(UNKNOWN_COUNTY),
          state |-> IF Truthy(state) THEN state ELSE Str(DEFAULT_STATE) ]

----------------------------------------------------------------------------
(* process_grok_response up to its zone loop (lines 146-245)               *)

\* the default of parsed_data.get('extraction_confidence', 0.7)
DEFAULT_CONFIDENCE == Num(7, 1)
\* the confidence of a regex stub (line 355)
FALLBACK_CONFIDENCE == Num(3, 1)

Plan(next, zones, town, county, state, conf) ==
    [next |-> next, exc |-> "", zones |-> zones, town |-> town, county |-> county,
     state |-> state, conf |-> conf]

\* an outcome that stores nothing: "raise" is an exception raised inside the
\* try of line 148 (exc names it), "return" the early return of line 212,
\* "fallback_raise" the return of the fallback's own handler (lines 365-367)
NoPlan(next, exc) ==
    [next |-> next, exc |-> exc, zones |-> <<>>, town |-> <<>>, county |-> <<>>,
     state |-> <<>>, conf |-> None]

\* the fallback's plan at a location
fallback_at(loc, found) ==
    IF IsRaise(loc.town) THEN NoPlan("fallback_raise", "")
    ELSE Plan("regex", found, loc.town.s, loc.county.s, loc.state.s, FALLBACK_CONFIDENCE)

\* what the regex fallback is going to store, or its own handler's early return
fallback_plan(job_id, grok_response, document_data) ==
    fallback_at(fallback_location(job_id, document_data), zones_found(grok_response))

\* lines 219-245: the plan once town and county are resolved
plan_resolved(zones, town, county, state, extraction_confidence) ==
    IF IsRaise(town) \/ IsRaise(county) THEN NoPlan("raise", "AttributeError")
    ELSE Plan("zones", Iterate(zones), town.s, county.s, state, extraction_confidence)

\* lines 214-217: the caller's town, county and state, stripped
plan_located(job_id, parsed_data, document_data, zones, town, county, state) ==
    IF IsRaise(town) \/ IsRaise(county) \/ IsRaise(state) THEN NoPlan("raise", "AttributeError")
    ELSE plan_resolved(zones,
            resolve_town(town.s, parsed_data, document_data, job_id),
            resolve_county(county.s, parsed_data),
            state.s,
            DictGet(parsed_data, "extraction_confidence", DEFAULT_CONFIDENCE))

\* lines 208-217: no zones is an early return
plan_zones(job_id, parsed_data, document_data, zones) ==
    IF IsRaise(zones) THEN NoPlan("raise", zones.exc)
    ELSE IF ~Truthy(zones) THEN NoPlan("return", "")
    ELSE plan_located(job_id, parsed_data, document_data, zones,
            StripValue(DictGet(document_data, "municipality", Str(<<>>))),
            StripValue(DictGet(document_data, "county", Str(<<>>))),
            StripValue(DictGet(document_data, "state", Str(DEFAULT_STATE))))

\* the plan for a parsing outcome
plan_parsed(job_id, grok_response, document_data, parsed) ==
    IF parsed.kind = "raise" THEN NoPlan("raise", parsed.data.exc)
    ELSE IF parsed.kind = "fallback" THEN fallback_plan(job_id, grok_response.s, document_data)
    ELSE plan_zones(job_id, parsed.data, document_data, locate_zones(parsed.data))

\* what process_grok_response is going to do with a response
prepare(job_id, grok_response, document_data) ==
    plan_parsed(job_id, grok_response, document_data, parse_response(grok_response))

\* process_grok_response_with_validation, lines 108-128: the document data
\* it hands on
validated_data(document_data) ==
    LET Text(name) == LET v == DictGet(document_data, name, None)
                      IN  IF Truthy(v) THEN v.s ELSE <<>>
        town == Strip(Text("municipality"))
        county == Strip(Text("county"))
        state == IF Text("state") = <<>> THEN DEFAULT_STATE ELSE Strip(Text("state"))
    IN  Dict(DictSet(DictSet(DictSet(document_data.items,
            "municipality", Str(IF town = <<>> \/ Lower(town) = <<"u","n","k","n","o","w","n">>
                                   THEN PENDING_EXTRACTION ELSE town)),
            "county", Str(IF county = <<>> THEN UNKNOWN_COUNTY ELSE county)),
            "state", Str(state)))

----------------------------------------------------------------------------
(* The inputs the pipeline is run on                                       *)

\* the raw model outputs the pipeline is run on
Response ==
    [
      \* {"zones": [{"zone":"R-1", "lot_area":8000}]}
      PLAIN |-> <<"{","\"","z","o","n","e","s","\"",":"," ","[","{","\"","z","o","n","e","\"",":","\"","R","-","1","\"",","," ","\"","l","o","t","_","a","r","e","a","\"",":","8","0","0","0","}","]","}">>,
      \* Here is the data: {"zones": [{"zone":"R-1", "lot_area":8000}], }
      TRAILING_COMMA |-> <<"H","e","r","e"," ","i","s"," ","t","h","e"," ","d","a","t","a",":"," ","{","\"","z","o","n","e","s","\"",":"," ","[","{","\"","z","o","n","e","\"",":","\"","R","-","1","\"",","," ","\"","l","o","t","_","a","r","e","a","\"",":","8","0","0","0","}","]",","," ","}">>,
      \* Here is the data: {"zones": [{"zone":"R-1", "lot_area":8000}]} Done.
      PROSE |-> <<"H","e","r","e"," ","i","s"," ","t","h","e"," ","d","a","t","a",":"," ","{","\"","z","o","n","e","s","\"",":"," ","[","{","\"","z","o","n","e","\"",":","\"","R","-","1","\"",","," ","\"","l","o","t","_","a","r","e","a","\"",":","8","0","0","0","}","]","}"," ","D","o","n","e",".">>,
      \* {"zones": [{"zone":"R-1",\x01 "lot_area":8000}]}
      CONTROL_CHAR |-> <<"{","\"","z","o","n","e","s","\"",":"," ","[","{","\"","z","o","n","e","\"",":","\"","R","-","1","\"",",","ctl"," ","\"","l","o","t","_","a","r","e","a","\"",":","8","0","0","0","}","]","}">>,
      \* {"raw_response": "{\"zones\": [{\"zone\":\"R-1\", \"lot_area\":8000}]}"}
      WRAPPED |-> <<"{","\"","r","a","w","_","r","e","s","p","o","n","s","e","\"",":"," ","\"","{","\\","\"","z","o","n","e","s","\\","\"",":"," ","[","{","\\","\"","z","o","n","e","\\","\"",":","\\","\"","R","-","1","\\","\"",","," ","\\","\"","l","o","t","_","a","r","e","a","\\","\"",":","8","0","0","0","}","]","}","\"","}">>,
      \* {"zones": [{"zone":"R-1", "lot_area":9000}]}
      REVISED |-> <<"{","\"","z","o","n","e","s","\"",":"," ","[","{","\"","z","o","n","e","\"",":","\"","R","-","1","\"",","," ","\"","l","o","t","_","a","r","e","a","\"",":","9","0","0","0","}","]","}">>,
      \* {"zones": [{"zone":"R-1","lot_area":8000},{"zone":"r-1(sup1)","lot_area":9000},{"zone":"C-2"}]}
      DUPLICATES |-> <<"{","\"","z","o","n","e","s","\"",":"," ","[","{","\"","z","o","n","e","\"",":","\"","R","-","1","\"",",","\"","l","o","t","_","a","r","e","a","\"",":","8","0","0","0","}",",","{","\"","z","o","n","e","\"",":","\"","r","-","1","sup1","\"",",","\"","l","o","t","_","a","r","e","a","\"",":","9","0","0","0","}",",","{","\"","z","o","n","e","\"",":","\"","C","-","2","\"","}","]","}">>,
      \* {"zones": [{"zone":"(sup1)"}]}
      MARKER_ONLY |-> <<"{","\"","z","o","n","e","s","\"",":"," ","[","{","\"","z","o","n","e","\"",":","\"","sup1","\"","}","]","}">>,
      \* {"zones": [{"zone":"R-1","front_yard_ft":"NaN","lot_area":NaN,"rear_setback":"Infinity"}], "extraction_confidence": 5}
      NOT_FINITE |-> <<"{","\"","z","o","n","e","s","\"",":"," ","[","{","\"","z","o","n","e","\"",":","\"","R","-","1","\"",",","\"","f","r","o","n","t","_","y","a","r","d","_","f","t","\"",":","\"","N","a","N","\"",",","\"","l","o","t","_","a","r","e","a","\"",":","N","a","N",",","\"","r","e","a","r","_","s","e","t","b","a","c","k","\"",":","\"","I","n","f","i","n","i","t","y","\"","}","]",","," ","\"","e","x","t","r","a","c","t","i","o","n","_","c","o","n","f","i","d","e","n","c","e","\"",":"," ","5","}">>,
      \* [1]
      TOP_LIST |-> <<"[","1","]">>,
      \* {"zones": "ab"}
      ZONES_TEXT |-> <<"{","\"","z","o","n","e","s","\"",":"," ","\"","a","b","\"","}">>,
      \* {"zones": [{"zone":"R-2"}, "ab", {"zone":"C-2"}]}
      ZONES_MIXED |-> <<"{","\"","z","o","n","e","s","\"",":"," ","[","{","\"","z","o","n","e","\"",":","\"","R","-","2","\"","}",","," ","\"","a","b","\"",","," ","{","\"","z","o","n","e","\"",":","\"","C","-","2","\"","}","]","}">>,
      \* District R-1, r-1
      NO_JSON |-> <<"D","i","s","t","r","i","c","t"," ","R","-","1",","," ","r","-","1">>,
      \* R-1
      ONE_CODE |-> <<"R","-","1">>,
      \* Zone {R-1}
      BRACES_JUNK |-> <<"Z","o","n","e"," ","{","R","-","1","}">>,
      \* {"raw_response": "zone C-2", "zones": [], "extraction_confidence": 0.5}
      WRAPPED_PROSE |-> <<"{","\"","r","a","w","_","r","e","s","p","o","n","s","e","\"",":"," ","\"","z","o","n","e"," ","C","-","2","\"",","," ","\"","z","o","n","e","s","\"",":"," ","[","]",","," ","\"","e","x","t","r","a","c","t","i","o","n","_","c","o","n","f","i","d","e","n","c","e","\"",":"," ","0",".","5","}">>,
      \* {"extracted_town":" Ely ","extracted_county":"Kent","zones":[{"zone":"R-1"}]}
      LOCATED |-> <<"{","\"","e","x","t","r","a","c","t","e","d","_","t","o","w","n","\"",":","\""," ","E","l","y"," ","\"",",","\"","e","x","t","r","a","c","t","e","d","_","c","o","u","n","t","y","\"",":","\"","K","e","n","t","\"",",","\"","z","o","n","e","s","\"",":","[","{","\"","z","o","n","e","\"",":","\"","R","-","1","\"","}","]","}">>,
      \* {"zones": []}
      NO_ZONES |-> <<"{","\"","z","o","n","e","s","\"",":"," ","[","]","}">>,
      \* {"zones": [], "districts": [{"name":"R-1"}]}
      EMPTY_FIRST |-> <<"{","\"","z","o","n","e","s","\"",":"," ","[","]",","," ","\"","d","i","s","t","r","i","c","t","s","\"",":"," ","[","{","\"","n","a","m","e","\"",":","\"","R","-","1","\"","}","]","}">>,
      \* {"zones": "ab", "districts": [{"zone":"R-1"}]}
      TEXT_FIRST |-> <<"{","\"","z","o","n","e","s","\"",":"," ","\"","a","b","\"",","," ","\"","d","i","s","t","r","i","c","t","s","\"",":"," ","[","{","\"","z","o","n","e","\"",":","\"","R","-","1","\"","}","]","}">>
    ]

\* the document rows the pipeline is run for
Document ==
    [
      NAMED |-> Dict(<<[k |-> "municipality", v |-> Str(<<"A","v","o","n">>)], [k |-> "county", v |-> Str(<<"E","s","s","e","x">>)], [k |-> "state", v |-> Str(<<"N","J">>)], [k |-> "filename", v |-> Str(<<"a",".","p","d","f">>)], [k |-> "original_filename", v |-> Str(<<"p","l","a","n",".","p","d","f">>)]>>),
      UNKNOWN |-> Dict(<<[k |-> "municipality", v |-> Str(<<"U","n","k","n","o","w","n">>)], [k |-> "county", v |-> Str(<<>>)], [k |-> "state", v |-> Str(<<"N","J">>)], [k |-> "filename", v |-> Str(<<"u","1",".","p","d","f">>)], [k |-> "original_filename", v |-> Str(<<"P","l","a","n"," ","B",".","p","d","f">>)]>>),
      NULL_TOWN |-> Dict(<<[k |-> "municipality", v |-> None], [k |-> "county", v |-> None], [k |-> "state", v |-> Str(<<"N","J">>)], [k |-> "filename", v |-> Str(<<"a",".","p","d","f">>)]>>),
      BLANK |-> Dict(<<[k |-> "municipality", v |-> Str(<<" ">>)], [k |-> "county", v |-> Str(<<" ">>)], [k |-> "state", v |-> Str(<<" ">>)], [k |-> "filename", v |-> Str(<<>>)], [k |-> "original_filename", v |-> Str(<<>>)]>>),
      BARE |-> Dict(<<>>)
    ]


Responses == DOMAIN Response
Documents == DOMAIN Document

\* the three ways into process_grok_response
Entries == {"process_document", "process_grok_response", "process_grok_response_with_validation"}

\* re-extractions of one document, whose responses name the same zone
StoreResponses == {"PLAIN", "REVISED", "ONE_CODE"}
StoreDocuments == {"NAMED"}

\* how many invocations run side by side against one store
MaxInvocations == 2

\* the invocations of the store specification, and the one of the other
Invocations == 1..MaxInvocations
Alone == {1}

\* what a store call can do: accept the write and return its row, return no
\* row, or raise
StoreOutcomes == {"accepted", "rejected", "raised"}

\* the job id the store gives to the job of invocation p
JobId(p) == <<"j","o","b","-","0","0","0">> \o IntToDigits(p) \o <<"-","x">>

\* grok_service.process_zoning_document, lines 163-180: the text handed on
\* as grok_response for the content the model produced
grok_response_of(content) ==
    LET parsed_content == json_loads(content)
        wrapper == Dict(<<[k |-> "raw_response", v |-> Str(content)],
                          [k |-> "zones", v |-> List(<<>>)],
                          [k |-> "extraction_confidence", v |-> Num(5, 1)]>>)
    IN  IF ~parsed_content.ok THEN json_dumps(wrapper)
        ELSE IF IsDict(parsed_content.v) THEN json_dumps(parsed_content.v)
        ELSE content

\* document_processor.py lines 69, 85-87 and 104-112: the document data
\* built from a document row whose file exists and yields text; a row
\* without one of the subscripted columns raises KeyError
doc_data(document) ==
    IF \E name \in {"filename", "municipality", "state"} : ~DictHas(document, name)
    THEN Raise("KeyError")
    ELSE Dict(<<[k |-> "municipality", v |-> DictAt(document, "municipality")],
                [k |-> "county", v |-> DictGet(document, "county", Str(<<>>))],
                [k |-> "state", v |-> DictAt(document, "state")],
                [k |-> "filename", v |-> DictAt(document, "filename")],
                [k |-> "original_filename", v |-> DictGet(document, "original_filename", Str(<<>>))]>>)

----------------------------------------------------------------------------
(* The store: the requirements table behind self.client                    *)

\* a conflict target that also names the job: on_conflict='job_id,town,county,state,zone'
on_conflict_with_job(rec) == <<rec.job_id, rec.town, rec.county, rec.state, rec.zone>>

\* the columns of on_conflict='town,county,state,zone' (line 514)
on_conflict(rec) == <<rec.town, rec.county, rec.state, rec.zone>>

\* the rows that conflict with a record
conflicting(rows, rec) == {r \in rows : on_conflict(r.rec) = on_conflict(rec)}

\* a plain insert: the record becomes a new row whatever the table holds
insert(rows, rec, id) == rows \cup {[id |-> id, rec |-> rec]}

\* .upsert(requirement_data, on_conflict=...), lines 511-515, accepted: a
\* conflicting row takes the record's values and keeps its id, otherwise
\* the record becomes a new row
upsert(rows, rec, id) ==
    IF conflicting(rows, rec) = {} THEN rows \cup {[id |-> id, rec |-> rec]}
    ELSE (rows \ conflicting(rows, rec)) \cup {[id |-> r.id, rec |-> rec] : r \in conflicting(rows, rec)}

\* result.data[0].get('id') (line 518): the id of the row written
requirement_id(rows, rec) == (CHOOSE r \in rows : r.rec = rec).id

----------------------------------------------------------------------------
(* The state                                                               *)

VARIABLES
    store,       \* the rows of the requirements table: [id, rec]
    next_id,     \* the id the store gives to its next new row
    job_status,  \* per invocation, the status last written for its job
    inv,         \* per invocation, the locals of the call in progress
    mapped,      \* a call of _insert_zone_requirements on one zone record
    scored,      \* a call of _calculate_accuracy
    ab_test,     \* a call of run_ab_test
    test_results,\* the TestResults recorded, in order
    upload_route,\* the uploader's /upload route: its folder, posts and replies
    upload_loop, \* the upload processor's loop and its upload directory
    doc_run      \* a call of DocumentProcessor.process_document

vars == <<store, next_id, job_status, inv, mapped, scored, ab_test, test_results,
          upload_route, upload_loop, doc_run>>

\* the state of the uploader and of the document processor's file handling
services == <<upload_route, upload_loop, doc_run>>

\* the state of the calls that are studied on their own
others == <<mapped, scored, ab_test, test_results, services>>

\* a call that is not made
NotCalled == [pc |-> "none"]

\* no such call is made
\* the services are not run
NoServices ==
    /\ upload_route = NotCalled
    /\ upload_loop = NotCalled
    /\ doc_run = NotCalled

NoOthers ==
    /\ mapped = NotCalled
    /\ scored = NotCalled
    /\ ab_test = NotCalled
    /\ test_results = <<>>
    /\ NoServices

\* an invocation that has not been called
Idle ==
    [ pc |-> "idle", entry |-> "", response |-> "", document |-> "", job_id |-> <<>>,
      town |-> <<>>, county |-> <<>>, state |-> <<>>, extraction_confidence |-> None,
      zones |-> <<>>, zones_found |-> {}, processed_zones |-> {}, requirement_ids |-> <<>>,
      handed |-> <<>>, skipped |-> <<>>, scanned |-> FALSE, exc |-> "", result |-> "" ]

Init ==
    /\ store = {}
    /\ next_id = 1
    /\ job_status = [p \in Alone |-> "none"]
    /\ inv = [p \in Alone |-> Idle]
    /\ NoOthers

InitStore ==
    /\ store = {}
    /\ next_id = 1
    /\ job_status = [p \in Invocations |-> "none"]
    /\ inv = [p \in Invocations |-> Idle]
    /\ NoOthers

----------------------------------------------------------------------------
(* The operations                                                          *)

\* a handler that catches decoding errors only
except_JSONDecodeError(exc) == exc = "JSONDecodeError"

\* the handler of lines 283-287, "except Exception": whether it catches exc
except_Exception(exc) == TRUE

\* _insert_zone_requirements (lines 369-527) under one behaviour of the
\* store: the rows afterwards, the records handed to the store, and the id
\* returned (0 for None).  A record that cannot be built (an exception in a
\* coercion) is caught by lines 525-527 before the store is called.
hand_to_store(rows, id, rec, outcome) ==
    IF \E f \in NumericFields : IsRaise(rec[f]) THEN [rows |-> rows, handed |-> <<>>, req_id |-> 0]
    ELSE IF outcome # "accepted"
         THEN [rows |-> rows, handed |-> <<[rec |-> rec, outcome |-> outcome]>>, req_id |-> 0]
    ELSE [rows |-> upsert(rows, rec, id), handed |-> <<[rec |-> rec, outcome |-> outcome]>>,
          req_id |-> requirement_id(upsert(rows, rec, id), rec)]

\* _insert_zone_requirements for one zone record
insert_zone_requirements(rows, id, job_id, town, county, state, zone_data, extraction_confidence, outcome) ==
    hand_to_store(rows, id,
        requirement_data(job_id, town, county, state, zone_data, extraction_confidence), outcome)

\* the locals of process_grok_response once its plan is made
entered_with(p, entry, r, d, plan) ==
    [ Idle EXCEPT !.pc = IF (plan.next = "zones" /\ plan.zones # <<>>)
                            \/ (plan.next = "regex" /\ plan.zones # {})
                         THEN plan.next ELSE "return",
                  !.entry = entry, !.response = r, !.document = d, !.job_id = JobId(p),
                  !.town = plan.town, !.county = plan.county, !.state = plan.state,
                  !.extraction_confidence = plan.conf,
                  !.zones = IF plan.next = "zones" THEN plan.zones ELSE <<>>,
                  !.zones_found = IF plan.next = "regex" THEN plan.zones ELSE {},
                  !.scanned = (plan.next = "regex"),
                  !.exc = plan.exc ]

\* the locals of process_grok_response when it reaches a loop or its end
entered(p, entry, r, d, grok_response, document_data) ==
    entered_with(p, entry, r, d, prepare(JobId(p), grok_response, document_data))

\* DocumentProcessor.process_document (lines 36-184) up to its call of
\* process_grok_response: the document row is read, the job is created
\* (create_job returns None when the store fails) and set to 'processing'
ProcessDocument(p, r, d) ==
    /\ inv[p].pc = "idle"
    /\ \E created \in BOOLEAN :
        LET data == doc_data(Document[d])
            ended == [Idle EXCEPT !.pc = "done", !.entry = "process_document", !.response = r,
                                  !.document = d,
                                  !.result = IF IsRaise(data) THEN "error" ELSE "no_job"]
        IN  IF IsRaise(data) \/ ~created
            THEN /\ inv' = [inv EXCEPT ![p] = ended]
                 /\ UNCHANGED job_status
            ELSE /\ inv' = [inv EXCEPT ![p] = entered(p, "process_document", r, d,
                                                      Str(grok_response_of(Response[r])), data)]
                 /\ job_status' = [job_status EXCEPT ![p] = "processing"]
    /\ UNCHANGED <<store, next_id, others>>

\* a call of process_grok_response, or of process_grok_response_with_validation
\* (lines 96-132), with the raw text and the caller's document data
Call(p, entry, r, d) ==
    /\ inv[p].pc = "idle"
    /\ inv' = [inv EXCEPT ![p] = entered(p, entry, r, d, Str(Response[r]),
                    IF entry = "process_grok_response_with_validation"
                    THEN validated_data(Document[d]) ELSE Document[d])]
    /\ UNCHANGED <<store, next_id, job_status, others>>

\* a call of _insert_zone_requirements from a loop of invocation p, whose
\* locals are me when the call is made: the id returned, if any, is
\* appended (lines 273-275 and 357-359)
Insert(p, me, zone_data, outcome) ==
    \E w \in {insert_zone_requirements(store, next_id, me.job_id, me.town, me.county, me.state,
                                        zone_data, me.extraction_confidence, outcome)} :
        /\ inv' = [inv EXCEPT ![p] =
                        [me EXCEPT !.handed = me.handed \o w.handed,
                                   !.requirement_ids = IF w.req_id # 0
                                                       THEN Append(me.requirement_ids, w.req_id)
                                                       ELSE me.requirement_ids]]
        /\ store' = w.rows
        /\ next_id' = IF \E row \in w.rows : row.id = next_id THEN next_id + 1 ELSE next_id

\* lines 255-271: a zone whose key was seen is skipped with a log line,
\* another one is inserted
ZoneNamed(p, me, zone_data, zone_name, key, outcome) ==
    IF key \in me.processed_zones
    THEN /\ inv' = [inv EXCEPT ![p] = [me EXCEPT !.skipped = Append(me.skipped, zone_name)]]
         /\ UNCHANGED <<store, next_id>>
    ELSE Insert(p, [me EXCEPT !.processed_zones = me.processed_zones \cup {key}], zone_data, outcome)

\* lines 252-253 and 277-279: the zone is named; for a zone that is no dict
\* the handler of line 277 raises in its own message, which ends the loop
\* in the handler of lines 283-287
ZoneIteration(p, me, zone_data, zone_name, outcome) ==
    IF IsRaise(zone_name)
    THEN /\ inv' = [inv EXCEPT ![p].pc = "return", ![p].exc = zone_name.exc]
         /\ UNCHANGED <<store, next_id>>
    ELSE ZoneNamed(p, [me EXCEPT !.pc = IF Len(me.zones) = 1 THEN "return" ELSE "zones",
                                 !.zones = Tail(me.zones)],
                   zone_data, zone_name.s,
                   zone_key(me.town, me.county, me.state, zone_name.s), outcome)

\* one iteration of the zone loop (lines 251-279)
ZoneStep(p) ==
    /\ inv[p].pc = "zones"
    /\ \E outcome \in StoreOutcomes :
        ZoneIteration(p, inv[p], Head(inv[p].zones), extract_zone_name(Head(inv[p].zones)), outcome)
    /\ UNCHANGED <<job_status, others>>

\* lines 347-361: a code that is empty or 50 characters long is passed over
RegexIteration(p, me, zone, outcome) ==
    IF zone # <<>> /\ Len(zone) < 50
    THEN Insert(p, me, Dict(<<[k |-> "zone", v |-> Str(zone)]>>), outcome)
    ELSE /\ inv' = [inv EXCEPT ![p] = me]
         /\ UNCHANGED <<store, next_id>>

\* one iteration of the loop over the codes the regex scan found (lines
\* 346-361); a set is iterated in no particular order
RegexStep(p) ==
    /\ inv[p].pc = "regex"
    /\ \E zone \in inv[p].zones_found, outcome \in StoreOutcomes :
        RegexIteration(p, [inv[p] EXCEPT !.pc = IF inv[p].zones_found = {zone} THEN "return" ELSE "regex",
                                         !.zones_found = inv[p].zones_found \ {zone}],
                       zone, outcome)
    /\ UNCHANGED <<job_status, others>>

\* the end of process_grok_response: it returns requirement_ids, or the
\* exception escapes; process_document then writes the job's status (lines
\* 129-139: 'completed' whether or not ids came back, 'failed' in its handler)
Return(p) ==
    /\ inv[p].pc = "return"
    /\ LET escaped == inv[p].exc # "" /\ ~except_Exception(inv[p].exc)
       IN  /\ inv' = [inv EXCEPT ![p].pc = "done",
                                 ![p].result = IF escaped THEN "escaped" ELSE "returned"]
           /\ job_status' = IF inv[p].entry = "process_document"
                            THEN [job_status EXCEPT ![p] = IF escaped THEN "failed" ELSE "completed"]
                            ELSE job_status
    /\ UNCHANGED <<store, next_id, others>>

\* one invocation, through any entry, of any response for any document
Next ==
    \E p \in Alone :
        \/ \E r \in Responses, d \in Documents : ProcessDocument(p, r, d)
        \/ \E entry \in Entries \ {"process_document"}, r \in Responses, d \in Documents :
                Call(p, entry, r, d)
        \/ ZoneStep(p)
        \/ RegexStep(p)
        \/ Return(p)

Spec == Init /\ [][Next]_vars

\* invocations side by side: documents processed again against one store
NextStore ==
    \E p \in Invocations :
        \/ \E r \in StoreResponses, d \in StoreDocuments : ProcessDocument(p, r, d)
        \/ ZoneStep(p)
        \/ RegexStep(p)
        \/ Return(p)

SpecStore == InitStore /\ [][NextStore]_vars

----------------------------------------------------------------------------
(* Zone records mapped one at a time: the zone objects a model returns,    *)
(* nested or flat, handed to _insert_zone_requirements                     *)

\* a key the zone record does not hold
Absent == [t |-> "absent"]

\* the items of a dict literal: the keys that are given a value, in order
items_of(pairs) == SelectSeq(pairs, LAMBDA p : p.v.t # "absent")

\* a sub-object, left out when none of its keys is given
nested(pairs) == IF items_of(pairs) = <<>> THEN Absent ELSE Dict(items_of(pairs))

\* a zone record that holds nothing but its name
NoFields ==
    [ name_key |-> "zone_name", zone_name |-> Str(<<"C","-","1">>),
      lot_area |-> Absent, area |-> 0, form |-> "none",
      nested_frontage |-> Absent, frontage |-> Absent, width |-> Absent, lot_depth |-> Absent,
      nested_front |-> Absent, front_setback |-> Absent, accessory_front |-> Absent,
      side_yard_ft |-> Absent, accessory_side |-> Absent,
      principal_rear_yard_ft |-> Absent, accessory_rear |-> Absent ]

\* the zone object for its fields, as json.loads returns it
zone_record(given) ==
    Dict(items_of(<<
        [k |-> given.name_key, v |-> given.zone_name],
        [k |-> "interior_lots", v |-> nested(<<[k |-> "min_lot_frontage_ft", v |-> given.nested_frontage]>>)],
        [k |-> "lot_area", v |-> given.lot_area],
        [k |-> "frontage", v |-> given.frontage],
        [k |-> "width", v |-> given.width],
        [k |-> "lot_depth", v |-> given.lot_depth],
        [k |-> "principal_yards", v |-> nested(<<[k |-> "front_yard_ft", v |-> given.nested_front]>>)],
        [k |-> "front_setback", v |-> given.front_setback],
        [k |-> "side_yard_ft", v |-> given.side_yard_ft],
        [k |-> "principal_rear_yard_ft", v |-> given.principal_rear_yard_ft],
        [k |-> "accessory_yards", v |-> nested(<<[k |-> "accessory_front_yard_ft", v |-> given.accessory_front],
                                                 [k |-> "accessory_side_yard_ft", v |-> given.accessory_side],
                                                 [k |-> "accessory_rear_yard_ft", v |-> given.accessory_rear]>>)]
    >>))

\* records with lot dimensions: a frontage nested (also as null) and flat,
\* a width (also as null), a depth
LotRecords ==
    { [NoFields EXCEPT !.nested_frontage = nf, !.frontage = f, !.width = w, !.lot_depth = d] :
        nf \in {Absent, None, Num(60, 0)}, f \in {Absent, Num(75, 0)},
        w \in {Absent, None, Num(80, 0)}, d \in {Absent, Num(100, 0)} }

\* records with yards: the principal front yard nested and flat, the
\* principal side yard flat, the principal rear yard flat under its
\* canonical name, and the accessory yards nested
YardRecords ==
    { [NoFields EXCEPT !.nested_front = pf, !.front_setback = fs, !.accessory_front = af,
                       !.side_yard_ft = ps, !.accessory_side = as,
                       !.principal_rear_yard_ft = pr, !.accessory_rear = ar] :
        pf \in {Absent, Num(25, 0)}, fs \in {Absent, Num(30, 0)}, af \in {Absent, Num(10, 0)},
        ps \in {Absent, Num(8, 0)}, as \in {Absent, Num(5, 0)},
        pr \in {Absent, Num(40, 0)}, ar \in {Absent, Num(15, 0)} }

\* the lot areas tried
LotAreas == {8000, 12000, 15000, 18000, 27500, 52000, 60000, 75000, 150000, 215000, 312000, 999999}

\* the ways a lot area arrives: a JSON number, a string of its digits, and
\* the string with a footnote marker after it
AreaForms == {"number", "string", "marked"}

\* the zone names tried: without a footnote digit, with the digit of R-1,
\* with a superscript 2, with a digit that is none of R-1, R-2, R-3
ZoneNames == {Str(<<"C","-","1">>), Str(<<"R","-","1">>), Str(<<"B","sup2">>), Str(<<"R","-","5">>)}

\* the keys the zone name is carried under
NameKeys == {"zone_name", "zone"}

\* the value of the lot_area key
area_value(n, form) ==
    CASE form = "number" -> Num(n, 0)
      [] form = "string" -> Str(IntToDigits(n))
      [] form = "marked" -> Str(Append(IntToDigits(n), "sup1"))

\* records with a lot area
AreaRecords ==
    { [NoFields EXCEPT !.name_key = key, !.zone_name = zn, !.lot_area = area_value(n, form),
                       !.area = n, !.form = form] :
        key \in NameKeys, zn \in ZoneNames, n \in LotAreas, form \in AreaForms }

\* the zone records mapped
ZoneRecords == LotRecords \cup YardRecords \cup AreaRecords

\* the location the records are mapped under
ZoneJob == [town |-> <<"A","v","o","n">>, county |-> <<"E","s","s","e","x">>, state |-> <<"N","J">>]

InitZone ==
    /\ store = {}
    /\ next_id = 1
    /\ job_status = [p \in Alone |-> "none"]
    /\ inv = [p \in Alone |-> Idle]
    /\ mapped \in {[pc |-> "given", given |-> g, zone_data |-> zone_record(g), handed |-> <<>>, req_id |-> 0,
                     log |-> {}] :
                    g \in ZoneRecords}
    /\ scored = NotCalled
    /\ ab_test = NotCalled
    /\ test_results = <<>>
    /\ NoServices

\* _insert_zone_requirements (lines 369-527) on the zone record, under one
\* behaviour of the store
MapZone(outcome) ==
    /\ mapped.pc = "given"
    /\ \E w \in {insert_zone_requirements(store, next_id, JobId(1), ZoneJob.town, ZoneJob.county,
                                           ZoneJob.state, mapped.zone_data, DEFAULT_CONFIDENCE, outcome)} :
        /\ mapped' = [mapped EXCEPT !.pc = "mapped", !.handed = w.handed, !.req_id = w.req_id,
                                  !.log = logged_corrections(mapped.zone_data)]
        /\ store' = w.rows
        /\ next_id' = IF \E row \in w.rows : row.id = next_id THEN next_id + 1 ELSE next_id
    /\ UNCHANGED <<job_status, inv, scored, ab_test, test_results, services>>

NextZone == \E outcome \in StoreOutcomes : MapZone(outcome)

SpecZone == InitZone /\ [][NextZone]_vars

----------------------------------------------------------------------------
(* Accuracy scoring (ab_testing_service.py, lines 344-458).  The floats    *)
(* of the scores are modelled as exact fractions.                          *)

RECURSIVE GCD(_, _)
GCD(a, b) == IF b = 0 THEN a ELSE GCD(b, a % b)

\* the fraction n / d for n >= 0 and d > 0, in lowest terms
Ratio(n, d) == [n |-> n \div GCD(n, d), d |-> d \div GCD(n, d)]

RatioAdd(x, y) == Ratio(x.n * y.d + y.n * x.d, x.d * y.d)
RatioMul(x, y) == Ratio(x.n * y.n, x.d * y.d)

RECURSIVE RatioSum(_)
\* sum() of a list of fractions
RatioSum(scores) ==
    IF scores = <<>> THEN Ratio(0, 1) ELSE RatioAdd(scores[1], RatioSum(Tail(scores)))

Abs(x) == IF x < 0 THEN -x ELSE x

\* str.upper(), one character
UpperChar(c) ==
    IF IsLower(c) THEN UpperChars[CHOOSE i \in 1..26 : LowerChars[i] = c] ELSE c

\* str.upper()
Upper(s) == [i \in 1..Len(s) |-> UpperChar(s[i])]

\* the default of tolerance_percent (line 392)
tolerance_percent == 5

\* an exact comparison: 1.0 for equal numbers, else 0.0
exact_match_score(predicted, actual, scale) ==
    IF predicted.m * Pow10(scale - predicted.e) = actual.m * Pow10(scale - actual.e)
    THEN Ratio(1, 1) ELSE Ratio(0, 1)

\* lines 445-454 for two finite numbers, actual not 0, both brought to the
\* scale of the finer one: 1.0 within the tolerance, else the linear decay
\* max(0.0, 1.0 - percent_diff / 100.0)
decayed_score(diff, magnitude) ==
    IF diff * 100 <= tolerance_percent * magnitude THEN Ratio(1, 1)
    ELSE IF diff >= magnitude THEN Ratio(0, 1)
    ELSE Ratio(magnitude - diff, magnitude)

\* the score of two finite numbers at a common scale
finite_score(predicted, actual, scale) ==
    decayed_score(Abs(predicted.m * Pow10(scale - predicted.e) - actual.m * Pow10(scale - actual.e)),
                  Abs(actual.m * Pow10(scale - actual.e)))

\* lines 441-454 once float() has succeeded on both.  With a NaN or an
\* infinity among them percent_diff is nan or inf, the test against the
\* tolerance fails and max(0.0, ...) gives 0.0
float_score(predicted_num, actual_num) ==
    IF IsFinite(actual_num) /\ actual_num.m = 0
    THEN (IF IsFinite(predicted_num) /\ predicted_num.m = 0 THEN Ratio(1, 1) ELSE Ratio(0, 1))
    ELSE IF ~IsFinite(actual_num) \/ ~IsFinite(predicted_num) THEN Ratio(0, 1)
    ELSE finite_score(predicted_num, actual_num,
                      IF predicted_num.e > actual_num.e THEN predicted_num.e ELSE actual_num.e)

\* lines 456-458: the comparison of the two values as lower-cased strings
string_score(predicted, actual) ==
    IF Lower(py_str(predicted)) = Lower(py_str(actual)) THEN Ratio(1, 1) ELSE Ratio(0, 1)

\* lines 440-458: float() of both, with ValueError and TypeError handled.
\* float(predicted) is evaluated first, so actual is converted only when
\* predicted was
coerced_score(predicted, actual, predicted_num, actual_num) ==
    IF IsRaise(predicted_num) \/ IsRaise(actual_num) THEN string_score(predicted, actual)
    ELSE float_score(predicted_num, actual_num)

\* _calculate_field_accuracy_score
calculate_field_accuracy_score(predicted, actual) ==
    IF IsNone(predicted) /\ IsNone(actual) THEN Ratio(1, 1)
    ELSE IF IsNone(predicted) # IsNone(actual) THEN Ratio(0, 1)
    ELSE coerced_score(predicted, actual, py_float(predicted), py_float(actual))

\* field_mappings (lines 395-416): extracted field name, ground-truth field
\* name, in the order of the dict
field_mappings ==
    << <<"interior_min_lot_area_sqft", "interior_min_lot_area_sqft">>,
       <<"interior_min_lot_frontage_ft", "interior_min_lot_frontage_ft">>,
       <<"interior_min_lot_width_ft", "interior_min_lot_width_ft">>,
       <<"interior_min_lot_depth_ft", "interior_min_lot_depth_ft">>,
       <<"principal_min_front_yard_ft", "principal_front_yard_ft">>,
       <<"principal_front_yard_ft", "principal_front_yard_ft">>,
       <<"principal_min_side_yard_ft", "principal_side_yard_ft">>,
       <<"principal_side_yard_ft", "principal_side_yard_ft">>,
       <<"principal_min_rear_yard_ft", "principal_rear_yard_ft">>,
       <<"principal_rear_yard_ft", "principal_rear_yard_ft">>,
       <<"max_building_coverage_percent", "max_building_coverage_percent">>,
       <<"max_lot_coverage_percent", "max_lot_coverage_percent">>,
       <<"principal_max_height_stories", "max_height_stories">>,
       <<"max_height_stories", "max_height_stories">>,
       <<"principal_max_height_feet", "max_height_feet_total">>,
       <<"max_height_feet_total", "max_height_feet_total">>,
       <<"maximum_far", "maximum_far">>,
       <<"max_far", "maximum_far">>,
       <<"maximum_density_units_per_acre", "maximum_density_units_per_acre">> >>

\* the ground-truth fields that are compared
comparable_fields == {field_mappings[i][2] : i \in 1..Len(field_mappings)}

RECURSIVE zone_field_scores(_, _, _)
\* _calculate_zone_field_accuracy: the loop of lines 420-426 from entry i
\* of field_mappings on; a score only where the extracted zone holds the
\* extracted name and the ground truth the ground-truth name
zone_field_scores(ai_zone, gt_req, i) ==
    IF i > Len(field_mappings) THEN <<>>
    ELSE (IF DictHas(ai_zone, field_mappings[i][1]) /\ DictHas(gt_req, field_mappings[i][2])
          THEN <<calculate_field_accuracy_score(DictAt(ai_zone, field_mappings[i][1]),
                                                DictAt(gt_req, field_mappings[i][2]))>>
          ELSE <<>>) \o zone_field_scores(ai_zone, gt_req, i + 1)

calculate_zone_field_accuracy(ai_zone, gt_req) == zone_field_scores(ai_zone, gt_req, 1)

\* zone.get('zone_name') or zone.get('zone', default)
named_or(zone, default) ==
    IF Truthy(DictGet(zone, "zone_name", None)) THEN DictAt(zone, "zone_name")
    ELSE DictGet(zone, "zone", default)

\* lines 354-356: the set of extracted names, str() of each, upper-cased
ai_zone_names(ai_zones) ==
    {Upper(py_str(named_or(ai_zones[i], Str(<<"u","n","k","n","o","w","n">>)))) : i \in 1..Len(ai_zones)}

\* line 351
gt_zone_names(ground_truth_reqs) ==
    {Upper(DictAt(ground_truth_reqs[i], "zone").s) : i \in 1..Len(ground_truth_reqs)}

\* lines 365-370: the search for the extracted zone of a ground-truth name
\* stops at the first zone whose name is no str (.upper() raises) or is the
\* name looked for; stops holds the positions of such zones
matching_ai_zone(ai_zones, stops) ==
    IF stops = {} THEN None
    ELSE IF ~IsStr(named_or(ai_zones[First(stops)], Str(<<>>))) THEN Raise("AttributeError")
    ELSE ai_zones[First(stops)]

\* lines 363-375 for one ground-truth requirement: its field scores
scores_of_match(matching, gt_req) ==
    IF IsRaise(matching) THEN matching
    ELSE IF Truthy(matching) THEN List(calculate_zone_field_accuracy(matching, gt_req))
    ELSE List(<<>>)

gt_req_scores(ai_zones, gt_req) ==
    scores_of_match(
        matching_ai_zone(ai_zones,
            {i \in 1..Len(ai_zones) :
                \/ ~IsStr(named_or(ai_zones[i], Str(<<>>)))
                \/ Upper(named_or(ai_zones[i], Str(<<>>)).s) = Upper(DictAt(gt_req, "zone").s)}),
        gt_req)

RECURSIVE total_field_scores(_, _, _)
\* the loop of lines 363-375 from ground-truth requirement i on
total_field_scores(ai_zones, ground_truth_reqs, i) ==
    IF i > Len(ground_truth_reqs) THEN List(<<>>)
    ELSE LET here == gt_req_scores(ai_zones, ground_truth_reqs[i])
             rest == total_field_scores(ai_zones, ground_truth_reqs, i + 1)
         IN  IF IsRaise(here) THEN here
             ELSE IF IsRaise(rest) THEN rest
             ELSE List(here.items \o rest.items)

\* line 377
field_accuracy(scores) ==
    IF scores # <<>> THEN RatioMul(RatioSum(scores), Ratio(1, Len(scores))) ELSE Ratio(0, 1)

\* an unweighted mean of the two accuracies
mean_accuracy(zone_acc, field_acc) == RatioMul(RatioAdd(zone_acc, field_acc), Ratio(1, 2))

\* line 383: zone_accuracy * 0.4 + field_accuracy * 0.6
overall_accuracy(zone_acc, field_acc) ==
    RatioAdd(RatioMul(zone_acc, Ratio(2, 5)), RatioMul(field_acc, Ratio(3, 5)))

\* lines 377-390 once the scores are collected
accuracy_of(zone_acc, scores) ==
    IF IsRaise(scores) THEN scores
    ELSE [ t |-> "scores",
           overall_accuracy |-> overall_accuracy(zone_acc, field_accuracy(scores.items)),
           zone_accuracy |-> zone_acc,
           field_accuracy |-> field_accuracy(scores.items),
           location_accuracy |-> Ratio(1, 1),
           field_scores |-> scores.items ]

\* _calculate_accuracy.  The record returned, with the local
\* total_field_scores beside it; an exception raised instead, when an
\* extracted zone is no dict or a name met in the search is no str
calculate_accuracy(ai_zones, ground_truth_reqs) ==
    IF ground_truth_reqs = <<>>
    THEN [ t |-> "scores", overall_accuracy |-> Ratio(0, 1), zone_accuracy |-> Ratio(0, 1),
           field_accuracy |-> Ratio(0, 1), location_accuracy |-> Ratio(0, 1), field_scores |-> <<>> ]
    ELSE IF \E i \in 1..Len(ai_zones) : ~IsDict(ai_zones[i]) THEN Raise("AttributeError")
    ELSE accuracy_of(
            Ratio(Cardinality(gt_zone_names(ground_truth_reqs) \cap ai_zone_names(ai_zones)),
                  Cardinality(gt_zone_names(ground_truth_reqs))),
            total_field_scores(ai_zones, ground_truth_reqs, 1))

\* the numeric columns of a ground-truth requirement (lines 129-141)
ground_truth_fields ==
    <<"interior_min_lot_area_sqft", "interior_min_lot_frontage_ft", "interior_min_lot_width_ft",
      "interior_min_lot_depth_ft", "principal_front_yard_ft", "principal_side_yard_ft",
      "principal_rear_yard_ft", "max_building_coverage_percent", "max_lot_coverage_percent",
      "max_height_stories", "max_height_feet_total", "maximum_far", "maximum_density_units_per_acre">>

\* a row of ground_truth_requirements as select('*') returns it (line 180):
\* every column, null where nothing was entered
gt_row(zone, area, front) ==
    Dict(<<[k |-> "zone", v |-> Str(zone)]>> \o
         [i \in 1..Len(ground_truth_fields) |->
            [k |-> ground_truth_fields[i],
             v |-> CASE ground_truth_fields[i] = "interior_min_lot_area_sqft" -> area
                     [] ground_truth_fields[i] = "principal_front_yard_ft" -> front
                     [] OTHER -> None]])

\* an extracted zone, as _parse_ai_response returns it: the keys the model
\* wrote
ai_zone(zone_name, zone, area, min_front, front) ==
    Dict(items_of(<<[k |-> "zone_name", v |-> zone_name],
                    [k |-> "zone", v |-> zone],
                    [k |-> "interior_min_lot_area_sqft", v |-> area],
                    [k |-> "principal_min_front_yard_ft", v |-> min_front],
                    [k |-> "principal_front_yard_ft", v |-> front]>>))

\* the arguments of a call, with the values of the case beside them
Scoring(case, ai_zones, ground_truth_reqs, predicted, actual) ==
    [ pc |-> "given", case |-> case, ai_zones |-> ai_zones, ground_truth_reqs |-> ground_truth_reqs,
      predicted |-> predicted, actual |-> actual, result |-> None ]

\* one zone with one field: lot areas extracted against lot areas entered
PredictedValues ==
    { None, Num(0, 0), Num(8000, 0), Num(8200, 0), Num(8400, 0), Num(8401, 0), Num(9200, 0),
      Num(16000, 0), Num(20000, 0), Num(-8000, 0), Num(26, 1), Bool(TRUE), NaN, Inf(FALSE),
      Str(<<"8","0","0","0">>), Str(<<"a","b","c">>) }
ActualValues == { None, Num(0, 0), Num(8000, 0), Num(25, 1) }

FieldScoreCases ==
    { Scoring("field", <<ai_zone(Str(<<"R","-","1">>), Absent, predicted, Absent, Absent)>>,
              <<gt_row(<<"R","-","1">>, actual, None)>>, predicted, actual) :
        predicted \in PredictedValues, actual \in ActualValues }

\* the names extracted zones come with: as entered, in lower case, with a
\* trailing space, another zone's, under the key zone, and a number
ExtractedNames ==
    { ai_zone(Str(<<"R","-","1">>), Absent, Num(8000, 0), Absent, Absent),
      ai_zone(Str(<<"r","-","1">>), Absent, Num(9200, 0), Absent, Absent),
      ai_zone(Str(<<"R","-","1"," ">>), Absent, Num(8000, 0), Absent, Absent),
      ai_zone(Str(<<"C","-","1">>), Absent, Num(8000, 0), Absent, Absent),
      ai_zone(Absent, Str(<<"R","-","1">>), Num(8000, 0), Absent, Absent),
      ai_zone(Num(5, 0), Absent, Num(8000, 0), Absent, Absent) }

\* lists of at most two zones
UpToTwo(S) == {<<>>} \cup {<<x>> : x \in S} \cup {<<x, y>> : x \in S, y \in S}

GroundTruths ==
    { <<>>,
      <<gt_row(<<"R","-","1">>, Num(8000, 0), None)>>,
      <<gt_row(<<"R","-","1">>, Num(8000, 0), None), gt_row(<<"C","-","1">>, Num(8000, 0), None)>>,
      <<gt_row(<<"r","-","1">>, Num(8000, 0), None), gt_row(<<"R","-","1">>, Num(8000, 0), None)>> }

ZoneNameCases ==
    { Scoring("names", ai_zones, ground_truth_reqs, None, None) :
        ai_zones \in UpToTwo(ExtractedNames), ground_truth_reqs \in GroundTruths }

\* zones whose fields are missing, null, or given under two names
ZoneFieldCases ==
    { Scoring("fields", <<ai_zone(Str(<<"R","-","1">>), Absent, area, min_front, front)>>,
              ground_truth_reqs, None, None) :
        area \in {Absent, None, Num(8000, 0), Num(9200, 0)},
        min_front \in {Absent, Num(25, 0), Num(30, 0)},
        front \in {Absent, Num(25, 0), Num(50, 0)},
        ground_truth_reqs \in
            { <<gt_row(<<"R","-","1">>, Num(8000, 0), Num(25, 0))>>,
              <<gt_row(<<"R","-","1">>, Num(8000, 0), Num(25, 0)),
                gt_row(<<"C","-","1">>, Num(8000, 0), None)>> } }

InitScore ==
    /\ store = {}
    /\ next_id = 1
    /\ job_status = [p \in Alone |-> "none"]
    /\ inv = [p \in Alone |-> Idle]
    /\ mapped = NotCalled
    /\ scored \in FieldScoreCases \cup ZoneNameCases \cup ZoneFieldCases
    /\ ab_test = NotCalled
    /\ test_results = <<>>
    /\ NoServices

\* a call of _calculate_accuracy
CalculateAccuracy ==
    /\ scored.pc = "given"
    /\ scored' = [scored EXCEPT !.pc = "scored",
                                !.result = calculate_accuracy(scored.ai_zones, scored.ground_truth_reqs)]
    /\ UNCHANGED <<store, next_id, job_status, inv, mapped, ab_test, test_results, services>>

NextScore == CalculateAccuracy

SpecScore == InitScore /\ [][NextScore]_vars

----------------------------------------------------------------------------
(* run_ab_test (ab_testing_service.py, lines 154-239) against the store    *)
(* and the model service                                                   *)

\* how many times run_ab_test is called, one call after the other
MaxRuns == 2

\* what the look-ups of lines 166-175 find
Lookups == {"found", "no_experiment", "no_ground_truth"}

\* what _run_ai_extraction gives: the zones of a successful extraction, a
\* failure reported as success False (lines 297-309), or an exception
\* raised before the request is built (lines 245-248)
AiResults ==
    { [success |-> TRUE, raised |-> FALSE, zones |-> zones] :
        zones \in { <<>>,
                    <<ai_zone(Str(<<"R","-","1">>), Absent, Num(8000, 0), Absent, Absent)>>,
                    <<ai_zone(Str(<<"r","-","1">>), Absent, Num(9200, 0), Absent, Absent)>>,
                    <<ai_zone(Num(5, 0), Absent, Num(8000, 0), Absent, Absent)>> } }
    \cup { [success |-> FALSE, raised |-> FALSE, zones |-> <<>>],
           [success |-> FALSE, raised |-> TRUE, zones |-> <<>>] }

\* what a call of the record_test_result procedure can do: record the
\* result and return its id, fail without recording, or record the result
\* and fail before the id is returned (the reply is lost)
RecordOutcomes == {"recorded", "failed", "recorded_then_raised"}

\* the accuracy scores of the handler (line 232)
zero_scores ==
    [ overall_accuracy |-> Ratio(0, 1), zone_accuracy |-> Ratio(0, 1),
      field_accuracy |-> Ratio(0, 1), location_accuracy |-> Ratio(0, 1) ]

\* the four scores of a result of _calculate_accuracy
four_scores(result) ==
    [ overall_accuracy |-> result.overall_accuracy, zone_accuracy |-> result.zone_accuracy,
      field_accuracy |-> result.field_accuracy, location_accuracy |-> result.location_accuracy ]

\* the row the record_test_result procedure is called with (lines 474-488)
TestResult(run, extraction_success, accuracy_scores) ==
    [ run |-> run, extraction_success |-> extraction_success, accuracy_scores |-> accuracy_scores ]

\* the table after a call of the procedure
record_test_result(results, row, outcome) ==
    IF outcome = "failed" THEN results ELSE Append(results, row)

\* no call of run_ab_test in progress
AbIdle ==
    [ pc |-> "idle", run |-> 0, ground_truth_reqs |-> <<>>, ai_result |-> None,
      accuracy_scores |-> None, success |-> FALSE, compared |-> FALSE ]

InitAbTest ==
    /\ store = {}
    /\ next_id = 1
    /\ job_status = [p \in Alone |-> "none"]
    /\ inv = [p \in Alone |-> Idle]
    /\ mapped = NotCalled
    /\ scored = NotCalled
    /\ ab_test = AbIdle
    /\ test_results = <<>>
    /\ NoServices

\* lines 162-181: a call of run_ab_test looks up the experiment, the
\* ground-truth document and its requirements; a look-up that finds nothing
\* raises into the handler
RunAbTest(lookup, ground_truth_reqs) ==
    /\ ab_test.pc \in {"idle", "returned"}
    /\ ab_test.run < MaxRuns
    /\ ab_test' = [AbIdle EXCEPT !.run = ab_test.run + 1,
                                 !.pc = IF lookup = "found" THEN "extract" ELSE "except",
                                 !.ground_truth_reqs = IF lookup = "found" THEN ground_truth_reqs ELSE <<>>]
    /\ UNCHANGED <<store, next_id, job_status, inv, mapped, scored, test_results, services>>

\* lines 186-191: the extraction, then the comparison with the ground
\* truth; an exception of either goes to the handler
RunAiExtraction(ai_result) ==
    /\ ab_test.pc = "extract"
    /\ \E scores \in {calculate_accuracy(ai_result.zones, ab_test.ground_truth_reqs)} :
        ab_test' = [ab_test EXCEPT !.pc = IF ai_result.raised \/ IsRaise(scores) THEN "except" ELSE "record",
                                   !.ai_result = ai_result,
                                   !.compared = ~ai_result.raised /\ ~IsRaise(scores),
                                   !.accuracy_scores = IF ai_result.raised \/ IsRaise(scores) THEN None
                                                       ELSE four_scores(scores)]
    /\ UNCHANGED <<store, next_id, job_status, inv, mapped, scored, test_results, services>>

\* lines 194-217: the result is recorded and the call returns; when
\* _record_test_result raises (lines 492-494) the handler is entered
RecordTestResult(outcome) ==
    /\ ab_test.pc = "record"
    /\ test_results' = record_test_result(test_results,
                            TestResult(ab_test.run, ab_test.ai_result.success, ab_test.accuracy_scores),
                            outcome)
    /\ ab_test' = [ab_test EXCEPT !.pc = IF outcome = "recorded" THEN "returned" ELSE "except",
                                  !.success = (outcome = "recorded")]
    /\ UNCHANGED <<store, next_id, job_status, inv, mapped, scored, services>>

\* lines 219-239, the handler: a failed test is recorded with zero scores,
\* whatever that call raises is dropped, and the call returns success False
RecordFailedTest(outcome) ==
    /\ ab_test.pc = "except"
    /\ test_results' = record_test_result(test_results, TestResult(ab_test.run, FALSE, zero_scores), outcome)
    /\ ab_test' = [ab_test EXCEPT !.pc = "returned", !.success = FALSE]
    /\ UNCHANGED <<store, next_id, job_status, inv, mapped, scored, services>>

NextAbTest ==
    \/ \E lookup \in Lookups, ground_truth_reqs \in GroundTruths : RunAbTest(lookup, ground_truth_reqs)
    \/ \E ai_result \in AiResults : RunAiExtraction(ai_result)
    \/ \E outcome \in RecordOutcomes : RecordTestResult(outcome)
    \/ \E outcome \in RecordOutcomes : RecordFailedTest(outcome)

SpecAbTest == InitAbTest /\ [][NextAbTest]_vars

----------------------------------------------------------------------------
(* The uploader's /upload route (document-uploader/app.py)                 *)

\* ALLOWED_EXTENSIONS (line 34)
ALLOWED_EXTENSIONS ==
    { <<"p","d","f">>, <<"d","o","c">>, <<"d","o","c","x">>, <<"t","x","t">>, <<"j","p","g">>,
      <<"j","p","e","g">>, <<"p","n","g">>, <<"t","i","f","f">>, <<"z","i","p">> }

\* filename.rsplit('.', 1): the parts around the last '.', one part when
\* the name has none
rsplit_dot(filename) ==
    IF RFind(filename, ".") = 0 THEN <<filename>>
    ELSE <<SubSeq(filename, 1, RFind(filename, ".") - 1),
           SubSeq(filename, RFind(filename, ".") + 1, Len(filename))>>

\* allowed_file (lines 46-47)
allowed_file(filename) ==
    /\ Find(filename, ".") # 0
    /\ Lower(rsplit_dot(filename)[2]) \in ALLOWED_EXTENSIONS

\* str.strip("._")
strip_dots(s) ==
    IF {i \in 1..Len(s) : s[i] \notin {".", "_"}} = {} THEN <<>>
    ELSE SubSeq(s, First({i \in 1..Len(s) : s[i] \notin {".", "_"}}),
                   CHOOSE i \in 1..Len(s) : /\ s[i] \notin {".", "_"}
                                            /\ \A j \in i + 1..Len(s) : s[j] \in {".", "_"})

\* werkzeug's secure_filename on a name without separators and white
\* space: the characters outside [A-Za-z0-9_.-] are dropped, then dots and
\* underscores are stripped from both ends
secure_filename(filename) ==
    strip_dots(SelectSeq(filename, LAMBDA c : IsAlpha(c) \/ IsDigit(c) \/ c \in {"_", ".", "-"}))

\* lines 209-210: the name the file is saved under; a name without a dot
\* has no second part, and the subscript raises
unique_name(name_parts, hex) ==
    IF Len(name_parts) < 2 THEN Raise("IndexError")
    ELSE Str(name_parts[1] \o <<"_">> \o hex \o <<".">> \o name_parts[2])

\* redirect(url_for('index')): the status of every return of upload_file
REDIRECT == 302
\* the status of a request whose handling raised
SERVER_ERROR == 500

\* how many requests are made
MaxRequests == 2

\* the file names of the file part: none chosen, a PDF, a program, a name
\* that is only an extension, a name in capitals
FileNames ==
    { <<>>, <<"a",".","p","d","f">>, <<"a",".","e","x","e">>, <<".","p","d","f">> ,
      <<"A",".","P","D","F">> }

\* the values of uuid.uuid4().hex[:8] tried
HexTokens == { <<"0","0","0","0","0","0","0","a">>, <<"0","0","0","0","0","0","0","b">> }

\* what the zoning backend does with a post: it answers 200, it answers
\* with another status, it cannot be reached
BackendOutcomes == {"ok", "http_error", "unreachable"}

\* the reply to a request, with what the request saved and posted
Reply(has_file, filename, status, category, saved, posted) ==
    [has_file |-> has_file, filename |-> filename, status |-> status, category |-> category,
     saved |-> saved, posted |-> posted]

\* upload_file (lines 162-240) for a request with or without a file part.
\* The debug files of lines 25 and 165 are opened outside the try: a request
\* that cannot write them is answered by the server's error page.
upload_file(has_file, filename, hex, debug_written, file_saved, backend) ==
    IF ~debug_written THEN Reply(has_file, filename, SERVER_ERROR, "none", {}, <<>>)
    ELSE IF ~has_file \/ filename = <<>> THEN Reply(has_file, filename, REDIRECT, "error", {}, <<>>)
    ELSE IF ~allowed_file(filename) THEN Reply(has_file, filename, REDIRECT, "error", {}, <<>>)
    ELSE IF IsRaise(unique_name(rsplit_dot(secure_filename(filename)), hex)) \/ ~file_saved
         THEN Reply(has_file, filename, REDIRECT, "error", {}, <<>>)
    ELSE Reply(has_file, filename, REDIRECT, IF backend = "ok" THEN "success" ELSE "warning",
               {unique_name(rsplit_dot(secure_filename(filename)), hex).s},
               <<secure_filename(filename)>>)

InitUpload ==
    /\ store = {}
    /\ next_id = 1
    /\ job_status = [p \in Alone |-> "none"]
    /\ inv = [p \in Alone |-> Idle]
    /\ mapped = NotCalled
    /\ scored = NotCalled
    /\ ab_test = NotCalled
    /\ test_results = <<>>
    /\ upload_route = [pc |-> "serving", folder |-> {}, posts |-> <<>>, replies |-> <<>>]
    /\ upload_loop = NotCalled
    /\ doc_run = NotCalled

\* one POST to /upload
UploadFile(has_file, filename, hex, debug_written, file_saved, backend) ==
    /\ upload_route.pc = "serving"
    /\ Len(upload_route.replies) < MaxRequests
    /\ \E reply \in {upload_file(has_file, filename, hex, debug_written, file_saved, backend)} :
        upload_route' = [upload_route EXCEPT !.folder = upload_route.folder \cup reply.saved,
                                             !.posts = upload_route.posts \o reply.posted,
                                             !.replies = Append(upload_route.replies, reply)]
    /\ UNCHANGED <<store, next_id, job_status, inv, mapped, scored, ab_test, test_results,
                   upload_loop, doc_run>>

NextUpload ==
    \E has_file \in BOOLEAN, filename \in FileNames, hex \in HexTokens,
       debug_written \in BOOLEAN, file_saved \in BOOLEAN, backend \in BackendOutcomes :
        UploadFile(has_file, filename, hex, debug_written, file_saved, backend)

SpecUpload == InitUpload /\ [][NextUpload]_vars

----------------------------------------------------------------------------
(* The upload processor (document-uploader/process_uploads.py).  A path of *)
(* the upload directory is its file name followed by the suffixes the loop *)
(* has appended to it.                                                     *)

\* MAX_RETRIES (line 76)
MAX_RETRIES == 3

\* how many submissions a run is followed for
MaxSubmissions == 5

\* the files uploaded before the loop looks at the directory
UploadedFiles == {"a.pdf", "b.pdf"}

\* what a submission meets (lines 48-63): status 200, another status, an
\* exception of the request
SubmitOutcomes == {"ok", "http_error", "exception"}

\* what shutil.move does (lines 102 and 113)
MoveOutcomes == {"moved", "raised"}

\* process_file (lines 24-67): whether the submission succeeded
process_file(outcome) == outcome = "ok"

\* line 101: file_path.with_suffix(file_path.suffix + '.failed'), the path
\* with '.failed' appended to its name
failed_path(file_path) == Append(file_path, ".failed")

\* retry_counts.get(file_str, 0) (line 94)
retry_count_of(retry_counts, file_str) ==
    IF file_str \in DOMAIN retry_counts THEN retry_counts[file_str] ELSE 0

\* retry_counts[file_str] = n (line 123)
with_retry_count(retry_counts, file_str, n) ==
    [f \in DOMAIN retry_counts \cup {file_str} |-> IF f = file_str THEN n ELSE retry_counts[f]]

\* del retry_counts[file_str], if it is there (lines 116-117)
without_retry_count(retry_counts, file_str) ==
    [f \in DOMAIN retry_counts \ {file_str} |-> retry_counts[f]]

InitLoop ==
    /\ store = {}
    /\ next_id = 1
    /\ job_status = [p \in Alone |-> "none"]
    /\ inv = [p \in Alone |-> Idle]
    /\ mapped = NotCalled
    /\ scored = NotCalled
    /\ ab_test = NotCalled
    /\ test_results = <<>>
    /\ upload_route = NotCalled
    /\ upload_loop \in { [pc |-> "glob", upload_dir |-> {<<f>> : f \in files}, processed_dir |-> {},
                          files_found |-> {}, processed_files |-> {}, retry_counts |-> <<>>,
                          submissions |-> <<>>] :
                         files \in (SUBSET UploadedFiles) \ {{}} }
    /\ doc_run = NotCalled

\* the variables the loop leaves alone
loop_unchanged ==
    UNCHANGED <<store, next_id, job_status, inv, mapped, scored, ab_test, test_results,
                upload_route, doc_run>>

\* lines 81-82: the files of the upload directory are listed
Glob ==
    /\ upload_loop.pc = "glob"
    /\ upload_loop' = [upload_loop EXCEPT !.pc = "files", !.files_found = upload_loop.upload_dir]
    /\ loop_unchanged

\* lines 97-103: a file that has used up its retries is marked as processed
\* and renamed; a failing rename ends the pass in the handler of line 131
SetAside(me, file_path, move) ==
    IF move = "moved"
    THEN upload_loop' = [me EXCEPT !.processed_files = me.processed_files \cup {file_path},
                                   !.upload_dir = (me.upload_dir \ {file_path}) \cup {failed_path(file_path)}]
    ELSE upload_loop' = [me EXCEPT !.processed_files = me.processed_files \cup {file_path},
                                   !.files_found = {}]

\* lines 105-124: the file is submitted; on success it is moved to the
\* processed directory, unless the move raises (line 119), and on failure
\* its retry count goes up
Submit(me, file_path, retry_count, result, move) ==
    IF result /\ move = "moved"
    THEN upload_loop' = [me EXCEPT !.upload_dir = me.upload_dir \ {file_path},
                                   !.processed_dir = me.processed_dir \cup {Head(file_path)},
                                   !.processed_files = me.processed_files \cup {file_path},
                                   !.retry_counts = without_retry_count(me.retry_counts, file_path)]
    ELSE IF result THEN upload_loop' = me
    ELSE upload_loop' = [me EXCEPT !.retry_counts =
                                        with_retry_count(me.retry_counts, file_path, retry_count + 1)]

\* lines 85-124 for one file of the listing, which is still in the directory
Visit(file_path, outcome, move) ==
    /\ upload_loop.pc = "files"
    /\ file_path \in upload_loop.files_found
    /\ Len(upload_loop.submissions) < MaxSubmissions
    /\ LET me == [upload_loop EXCEPT !.files_found = upload_loop.files_found \ {file_path}]
           retry_count == retry_count_of(upload_loop.retry_counts, file_path)
       IN  IF file_path \notin upload_loop.upload_dir \/ file_path \in upload_loop.processed_files
           THEN upload_loop' = me
           ELSE IF retry_count >= MAX_RETRIES THEN SetAside(me, file_path, move)
           ELSE Submit([me EXCEPT !.submissions = Append(me.submissions,
                                        [file |-> file_path, success |-> process_file(outcome)])],
                       file_path, retry_count, process_file(outcome), move)
    /\ loop_unchanged

\* line 126, or 133 after an exception: the loop sleeps and starts over
Sleep ==
    /\ upload_loop.pc = "files"
    /\ upload_loop.files_found = {}
    /\ upload_loop' = [upload_loop EXCEPT !.pc = "glob"]
    /\ loop_unchanged

NextLoop ==
    \/ Glob
    \/ \E name \in UploadedFiles, suffixes \in 0..MaxSubmissions, outcome \in SubmitOutcomes,
          move \in MoveOutcomes :
            Visit([i \in 1..suffixes + 1 |-> IF i = 1 THEN name ELSE ".failed"], outcome, move)
    \/ Sleep

SpecLoop == InitLoop /\ [][NextLoop]_vars

----------------------------------------------------------------------------
(* DocumentProcessor.process_document and the document's file              *)
(* (document_processor.py, lines 36-184).  What it does for the job and    *)
(* the requirements of the document (lines 97-139) is ProcessDocument      *)
(* above; here are the document row, its file and the result returned.     *)

\* the two back ends: a Supabase client hands out dict records, a
\* SQLAlchemy session ORM records (lines 49-52)
Backends == {"supabase", "sqlalchemy"}

\* isinstance(document, dict)
is_dict(db) == db = "supabase"

\* the path of the documents tried
DOC_PATH == <<"/","a","p","p","/","u","p","l","o","a","d","s","/","a",".","t","x","t">>

\* the document rows tried: no row, a row without a path (null or empty),
\* a row whose file is missing, a row whose file is there
DocumentRows ==
    { [found |-> FALSE, file_path |-> None, on_disk |-> FALSE],
      [found |-> TRUE, file_path |-> None, on_disk |-> FALSE],
      [found |-> TRUE, file_path |-> Str(<<>>), on_disk |-> FALSE],
      [found |-> TRUE, file_path |-> Str(DOC_PATH), on_disk |-> FALSE],
      [found |-> TRUE, file_path |-> Str(DOC_PATH), on_disk |-> TRUE] }

\* what a file that is there yields as text: nothing, the empty text, text
FileTexts == {None, Str(<<>>), Str(<<"R","-","1">>)}

\* what a status update does (lines 195-212): it is written, or it fails
\* and the failure is logged
UpdateOutcomes == {"written", "failed"}

\* os.path.exists: a path that is None is a TypeError
path_exists(file_path, on_disk) ==
    IF ~IsStr(file_path) THEN Raise("TypeError") ELSE Bool(on_disk)

\* the condition of line 72.  The conditional expression binds loosest:
\* (not document['file_path']) if isinstance(document, dict)
\* else (document.file_path or not os.path.exists(document.file_path))
file_not_found(db, file_path, on_disk) ==
    IF is_dict(db) THEN Bool(~Truthy(file_path))
    ELSE IF Truthy(file_path) THEN Bool(TRUE)
    ELSE IF IsRaise(path_exists(file_path, on_disk)) THEN path_exists(file_path, on_disk)
    ELSE Bool(~path_exists(file_path, on_disk).b)

\* grok_service.extract_text_from_document (lines 211-275): the text of the
\* file, None when the file cannot be opened
extract_text_from_document(on_disk, text) == IF on_disk THEN text ELSE None

\* the error messages of process_document, without the values they carry
DOCUMENT_NOT_FOUND == "Document not found"
FILE_NOT_FOUND == "Document file not found"
NO_TEXT == "Failed to extract text from document"
MODEL_ERROR == "grok_result error"
UNEXPECTED_ERROR == "Unexpected error processing document"

\* what a call leaves: the result returned, the row's processing_status and
\* whether the file was moved to the processed directory
Processed(success, error, status, moved) ==
    [success |-> success, error |-> error, status |-> status, moved |-> moved]

\* a return with an error after the row was set to 'processing' (lines
\* 73-75, 80-82, 163-175, 178-184)
failed_with(error, update) ==
    Processed(FALSE, error, IF update = "written" THEN "failed" ELSE "processing", FALSE)

\* lines 78-175 once the file check has passed
process_text(text_content, grok_success, on_disk, update) ==
    IF ~Truthy(text_content) THEN failed_with(NO_TEXT, update)
    ELSE IF ~grok_success THEN failed_with(MODEL_ERROR, update)
    ELSE Processed(TRUE, "", IF update = "written" THEN "completed" ELSE "processing", on_disk)

\* lines 72-75 and the handler of lines 177-184
process_checked(missing, text_content, grok_success, on_disk, update) ==
    IF IsRaise(missing) THEN failed_with(UNEXPECTED_ERROR, update)
    ELSE IF missing.b THEN failed_with(FILE_NOT_FOUND, update)
    ELSE process_text(text_content, grok_success, on_disk, update)

\* process_document for a row, what its file yields, the model's answer
\* and the fate of the status update
process_document(db, row, text, grok_success, update) ==
    IF ~row.found THEN Processed(FALSE, DOCUMENT_NOT_FOUND, "none", FALSE)
    ELSE process_checked(file_not_found(db, row.file_path, row.on_disk),
                         extract_text_from_document(row.on_disk, text), grok_success,
                         row.on_disk, update)

InitDocument ==
    /\ store = {}
    /\ next_id = 1
    /\ job_status = [p \in Alone |-> "none"]
    /\ inv = [p \in Alone |-> Idle]
    /\ mapped = NotCalled
    /\ scored = NotCalled
    /\ ab_test = NotCalled
    /\ test_results = <<>>
    /\ upload_route = NotCalled
    /\ upload_loop = NotCalled
    /\ doc_run \in { [pc |-> "given", db |-> db, row |-> row, text |-> None, grok_success |-> FALSE,
                      update |-> "", result |-> Processed(FALSE, "", "uploaded", FALSE)] :
                     db \in Backends, row \in DocumentRows }

\* one call of process_document
ProcessFile(text, grok_success, update) ==
    /\ doc_run.pc = "given"
    /\ doc_run' = [doc_run EXCEPT !.pc = "done", !.text = text, !.grok_success = grok_success,
                                  !.update = update,
                                  !.result = process_document(doc_run.db, doc_run.row, text,
                                                              grok_success, update)]
    /\ UNCHANGED <<store, next_id, job_status, inv, mapped, scored, ab_test, test_results,
                   upload_route, upload_loop>>

NextDocument ==
    \E text \in FileTexts, grok_success \in BOOLEAN, update \in UpdateOutcomes :
        ProcessFile(text, grok_success, update)

SpecDocument == InitDocument /\ [][NextDocument]_vars

----------------------------------------------------------------------------
(* The properties                                                          *)

\* the identity of a record: (town, county, state, zone)
Identity(rec) == <<rec.town, rec.county, rec.state, rec.zone>>

\* the rows stored for the identity of a record
RowsFor(rows, rec) == {r \in rows : Identity(r.rec) = Identity(rec)}

\* the record handed to the store last by an invocation
LastHanded(me) == me.handed[Len(me.handed)]

\* C1: persisting a record for an identity leaves exactly one stored row for
\* that identity, holding the values just written; when the identity was
\* stored already, the write adds no row and the row keeps its id, so the
\* second write supersedes the first.
C1_SecondWriteSupersedes ==
    [][\A p \in DOMAIN inv :
        (/\ Len(inv'[p].handed) = Len(inv[p].handed) + 1
         /\ LastHanded(inv'[p]).outcome = "accepted")
        => /\ Cardinality(RowsFor(store', LastHanded(inv'[p]).rec)) = 1
           /\ \A r \in RowsFor(store', LastHanded(inv'[p]).rec) : r.rec = LastHanded(inv'[p]).rec
           /\ RowsFor(store, LastHanded(inv'[p]).rec) # {}
                => /\ Cardinality(store') = Cardinality(store)
                   /\ {r.id : r \in store'} = {r.id : r \in store}]_vars

\* an identity written twice with different lot areas, by two invocations:
\* the store holds one row for it, with the values of one of the writes
C1_WrittenTwice ==
    \E p \in DOMAIN inv, q \in DOMAIN inv :
        /\ p # q
        /\ \E i \in DOMAIN inv[p].handed, j \in DOMAIN inv[q].handed :
            /\ inv[p].handed[i].outcome = "accepted"
            /\ inv[q].handed[j].outcome = "accepted"
            /\ Identity(inv[p].handed[i].rec) = Identity(inv[q].handed[j].rec)
            /\ inv[p].handed[i].rec.interior_min_lot_area_sqft
                    # inv[q].handed[j].rec.interior_min_lot_area_sqft
            /\ RowsFor(store, inv[q].handed[j].rec) = {r \in store : r.rec = inv[q].handed[j].rec}
            /\ Cardinality(RowsFor(store, inv[q].handed[j].rec)) = 1

\* C2: within one invocation no two records handed to the store have the
\* same (town, county, state, zone) key compared case-insensitively, on the
\* zone loop and on the regex fallback alike.
C2_OneRecordPerKey ==
    \A p \in DOMAIN inv :
        \A i \in DOMAIN inv[p].handed, j \in DOMAIN inv[p].handed :
            i < j => zone_key(inv[p].handed[i].rec.town, inv[p].handed[i].rec.county,
                              inv[p].handed[i].rec.state, inv[p].handed[i].rec.zone)
                     # zone_key(inv[p].handed[j].rec.town, inv[p].handed[j].rec.county,
                                inv[p].handed[j].rec.state, inv[p].handed[j].rec.zone)

\* the well-formed document {"zones": [{"zone":"R-1", "lot_area":8000}]} and
\* the responses that are this document with a recoverable defect: prose
\* around it, a trailing comma, a control character, a raw_response wrapper
Recoverable == {"PLAIN", "PROSE", "TRAILING_COMMA", "CONTROL_CHAR", "WRAPPED"}

\* C3: process_grok_response hands the store the same records for a
\* response with a recoverable defect as for the well-formed document: one
\* record, for zone R-1, with interior_min_lot_area_sqft = 8000.
C3_RecoverableAsWellFormed ==
    \A p \in DOMAIN inv :
        (/\ inv[p].pc = "done"
         /\ inv[p].entry = "process_grok_response"
         /\ inv[p].response \in Recoverable
         /\ inv[p].document = "NAMED")
        => /\ Len(inv[p].handed) = 1
           /\ inv[p].handed[1].rec.zone = <<"R", "-", "1">>
           /\ inv[p].handed[1].rec.interior_min_lot_area_sqft = Num(8000, 0)

\* C4: process_grok_response never lets an exception escape: it returns,
\* and what it returns is a list of ids of stored rows.
C4_NoExceptionEscapes ==
    \A p \in DOMAIN inv :
        /\ inv[p].result # "escaped"
        /\ (inv[p].pc = "done" /\ inv[p].entry = "process_grok_response")
            => /\ inv[p].result = "returned"
               /\ \A i \in DOMAIN inv[p].requirement_ids :
                    inv[p].requirement_ids[i] \in 1..(next_id - 1)

\* an invocation that has returned after an exception was raised in its zone
\* loop and after the store raised on one of its writes
C4_RaisedAndReturned ==
    \E p \in DOMAIN inv :
        /\ inv[p].pc = "done"
        /\ inv[p].entry = "process_grok_response"
        /\ inv[p].result = "returned"
        /\ inv[p].exc # ""
        /\ \E i \in DOMAIN inv[p].handed : inv[p].handed[i].outcome = "raised"

\* the first "{" to last "}" slice of a text with the cleanup applied
CleanedSlice(text) ==
    sub_control_chars(sub_trailing_commas(SubSeq(text, Find(text, "{"), RFind(text, "}")), 1))

\* a text none of the parsing steps turns into a document: the direct parse
\* and the parse of the cleaned slice fail, or the raw_response re-parse does
NoDocumentIn(text) ==
    IF json_loads(text).ok THEN unwrap_raw_response(json_loads(text).v).kind = "fallback"
    ELSE \/ Find(text, "{") = 0
         \/ RFind(text, "}") < Find(text, "{")
         \/ ~json_loads(CleanedSlice(text)).ok

\* C5: when no parsing step turns the raw text into a document, the regex
\* scan has run by the time the invocation ends, and every record handed to
\* the store is a stub of confidence 0.3 for a code the scan matched.
C5_ParseFailureRunsScan ==
    \A p \in DOMAIN inv :
        (/\ inv[p].pc = "done"
         /\ inv[p].entry \in {"process_grok_response", "process_grok_response_with_validation"}
         /\ NoDocumentIn(Response[inv[p].response]))
        => /\ inv[p].scanned
           /\ {inv[p].handed[i].rec.zone : i \in DOMAIN inv[p].handed}
                = zones_found(Response[inv[p].response])
           /\ \A i \in DOMAIN inv[p].handed :
                inv[p].handed[i].rec.extraction_confidence = FALLBACK_CONFIDENCE

\* C6: when process_document has returned and the store accepted none of
\* the writes of the invocation, the job's last written status is 'failed'.
C6_FailedWritesFailTheJob ==
    \A p \in DOMAIN inv :
        (/\ inv[p].pc = "done"
         /\ inv[p].entry = "process_document"
         /\ inv[p].handed # <<>>
         /\ \A i \in DOMAIN inv[p].handed : inv[p].handed[i].outcome # "accepted")
        => job_status[p] = "failed"

\* C7: however the invocations interleave, the store holds at most one row
\* per (town, county, state, zone) key, and every row is, field for field,
\* the record of one accepted write of one invocation.
C7_OneRowPerKey ==
    /\ \A r1 \in store, r2 \in store : Identity(r1.rec) = Identity(r2.rec) => r1 = r2
    /\ \A r \in store :
        \E p \in DOMAIN inv : \E i \in DOMAIN inv[p].handed :
            inv[p].handed[i] = [rec |-> r.rec, outcome |-> "accepted"]

\* invocation p is inside its loop, having written a key that invocation q
\* has written after it: the row of the key is q's
C7_Interleaved ==
    \E p \in DOMAIN inv, q \in DOMAIN inv :
        /\ p # q
        /\ inv[p].pc \in {"zones", "regex"}
        /\ \E i \in DOMAIN inv[p].handed, j \in DOMAIN inv[q].handed :
            /\ inv[p].handed[i].outcome = "accepted"
            /\ inv[q].handed[j].outcome = "accepted"
            /\ Identity(inv[p].handed[i].rec) = Identity(inv[q].handed[j].rec)
            /\ \E r \in store : r.rec = inv[q].handed[j].rec

\* the town the caller supplied, stripped; empty when absent or None
CallerTown(d) ==
    IF IsStr(DictGet(Document[d], "municipality", None))
    THEN Strip(DictGet(Document[d], "municipality", None).s)
    ELSE <<>>

\* a placeholder town: empty or 'unknown' in any letter case
IsPlaceholder(town) == town = <<>> \/ Lower(town) = <<"u","n","k","n","o","w","n">>

\* the responses that hold a non-empty zone collection of well-formed zones
WithZones == {"PLAIN", "REVISED", "DUPLICATES", "LOCATED"}

\* C8: the stored town is the caller's when the caller gave one that is no
\* placeholder; no placeholder and no temporary sentinel is ever the stored
\* town; and a town the caller did not give does not keep the records of a
\* non-empty zone collection from being handed to the store.
C8_TownResolvedByPriority ==
    \A p \in DOMAIN inv :
        /\ \A i \in DOMAIN inv[p].handed :
            /\ ~IsPlaceholder(inv[p].handed[i].rec.town)
            /\ inv[p].handed[i].rec.town # PENDING_EXTRACTION
            /\ ~IsPlaceholder(CallerTown(inv[p].document))
                => inv[p].handed[i].rec.town = CallerTown(inv[p].document)
        /\ (/\ inv[p].pc = "done"
            /\ inv[p].result = "returned"
            /\ inv[p].response \in WithZones)
            => inv[p].handed # <<>>

\* C9: every record handed to the store has a non-empty town, county, state
\* and zone.
C9_IdentityNeverEmpty ==
    \A p \in DOMAIN inv : \A i \in DOMAIN inv[p].handed :
        /\ inv[p].handed[i].rec.town # <<>>
        /\ inv[p].handed[i].rec.county # <<>>
        /\ inv[p].handed[i].rec.state # <<>>
        /\ inv[p].handed[i].rec.zone # <<>>

\* C10: in every record handed to the store each numeric requirement field
\* is null or a finite number, and extraction_confidence is a number from 0
\* to 1.
C10_NumericFieldsFinite ==
    \A p \in DOMAIN inv : \A i \in DOMAIN inv[p].handed :
        /\ \A f \in NumericFields :
            IsNone(inv[p].handed[i].rec[f]) \/ IsFinite(inv[p].handed[i].rec[f])
        /\ IsFinite(inv[p].handed[i].rec.extraction_confidence)
        /\ inv[p].handed[i].rec.extraction_confidence.m >= 0
        /\ inv[p].handed[i].rec.extraction_confidence.m
                <= Pow10(inv[p].handed[i].rec.extraction_confidence.e)

\* the record a mapped zone record was handed to the store as
MappedRec == mapped.handed[1].rec

\* whether the zone record is mapped and its record handed to the store
IsMapped == mapped.pc = "mapped" /\ mapped.handed # <<>>

\* the first of the values that is neither absent nor null, else null
first_value(values) ==
    IF \E i \in 1..Len(values) : values[i].t \notin {"absent", "null"}
    THEN values[First({i \in 1..Len(values) : values[i].t \notin {"absent", "null"}})]
    ELSE None

\* C11: a field resolved through aliases takes the first value that is
\* present and not null, the nested sub-object's keys before the top-level
\* ones: the frontage is interior_lots.min_lot_frontage_ft, else frontage;
\* the principal front yard is principal_yards.front_yard_ft, else
\* front_setback; with no value under any alias the field is null.  A null
\* under the nested key does not hide the top-level value.
C11_FirstNonNullWins ==
    IsMapped =>
        /\ MappedRec.interior_min_lot_frontage_ft
                = first_value(<<mapped.given.nested_frontage, mapped.given.frontage>>)
        /\ MappedRec.principal_front_yard_ft
                = first_value(<<mapped.given.nested_front, mapped.given.front_setback>>)

\* C12: the interior lot width is the width found directly when there is
\* one and otherwise the lot frontage; the interior lot depth is the depth
\* found directly when there is one and otherwise the width after its own
\* fallback.  A value found directly is never replaced.
C12_WidthAndDepthFallBack ==
    IsMapped =>
        /\ MappedRec.interior_min_lot_width_ft
                = IF mapped.given.width.t = "num" THEN mapped.given.width
                  ELSE MappedRec.interior_min_lot_frontage_ft
        /\ MappedRec.interior_min_lot_depth_ft
                = IF mapped.given.lot_depth.t = "num" THEN mapped.given.lot_depth
                  ELSE MappedRec.interior_min_lot_width_ft

\* a record with frontage 75, no width and no depth is stored with width 75
\* and depth 75
C12_FrontageOnly ==
    /\ IsMapped
    /\ mapped.given.frontage = Num(75, 0)
    /\ mapped.given.nested_frontage.t = "absent"
    /\ mapped.given.width.t = "absent"
    /\ mapped.given.lot_depth.t = "absent"
    /\ MappedRec.interior_min_lot_frontage_ft = Num(75, 0)
    /\ MappedRec.interior_min_lot_width_ft = Num(75, 0)
    /\ MappedRec.interior_min_lot_depth_ft = Num(75, 0)

\* C13: for the front, the side and the rear yard each, when no accessory
\* alias holds a value the stored accessory setback is the stored principal
\* setback of the same side, whether the principal setback came flat or
\* nested in the principal-yards sub-object; the accessory setback is null
\* only when the principal one is.
C13_AccessoryFallsBackToPrincipal ==
    IsMapped =>
        /\ mapped.given.accessory_front.t = "absent"
                => MappedRec.accessory_front_yard_ft = MappedRec.principal_front_yard_ft
        /\ mapped.given.accessory_side.t = "absent"
                => MappedRec.accessory_side_yard_ft = MappedRec.principal_side_yard_ft
        /\ mapped.given.accessory_rear.t = "absent"
                => MappedRec.accessory_rear_yard_ft = MappedRec.principal_rear_yard_ft
        /\ \A side \in {"front", "side", "rear"} :
                IsNone(MappedRec["accessory_" \o side \o "_yard_ft"])
                    => IsNone(MappedRec["principal_" \o side \o "_yard_ft"])

\* the number left when the leading digit of n is removed
without_leading_digit(n) == DigitsToInt(Tail(IntToDigits(n)))

\* whether a lot area matches none of the correction rules under a zone
\* name: it is not in the table of known contaminations, it is not a five
\* digit value starting with 1, 2 or 3 whose remainder is in range, its
\* leading digit is not the zone name's digit with a remainder in range,
\* and it is not above 100,000
matches_no_rule(n, zone_name) ==
    /\ n \notin DOMAIN contamination_patterns
    /\ ~(Len(IntToDigits(n)) = 5 /\ Head(IntToDigits(n)) \in {"1", "2", "3"}
         /\ candidate_in_range(without_leading_digit(n)))
    /\ ~(<<Head(IntToDigits(n))>> = footnote_digit_of(zone_name.s)
         /\ candidate_in_range(without_leading_digit(n)))
    /\ n <= 100000

\* C14: a lot area that matches none of the correction rules is stored
\* with its value unchanged, whether it arrives as a JSON number or as a
\* string of digits; 60000 under a zone name without a matching digit stays
\* 60000.
C14_UnmatchedAreaUnchanged ==
    (IsMapped /\ mapped.given.form \in {"number", "string"}
     /\ matches_no_rule(mapped.given.area, mapped.given.zone_name))
        => MappedRec.interior_min_lot_area_sqft = Num(mapped.given.area, 0)

\* C15: whenever the stored lot area differs from the numeric value of the
\* input, read after its footnote markers are stripped, it lies within
\* 1,000 to 50,000 and is the input's digits with exactly one leading
\* digit removed, for number and string inputs alike.
C15_OneLeadingDigitRemoved ==
    (IsMapped /\ mapped.given.form # "none"
     /\ MappedRec.interior_min_lot_area_sqft # Num(mapped.given.area, 0))
        => /\ MappedRec.interior_min_lot_area_sqft = Num(without_leading_digit(mapped.given.area), 0)
           /\ candidate_in_range(without_leading_digit(mapped.given.area))

\* whether the accuracies of the call were returned
IsScored == scored.pc = "scored" /\ ~IsRaise(scored.result)

\* whether a fraction lies in [0, 1]
InUnit(x) == 0 <= x.n /\ x.n <= x.d /\ 0 < x.d

\* the names of the extracted zones and of the ground truth, trimmed and
\* compared without regard to case
trimmed_names(values) == {Upper(Strip(values[i])) : i \in 1..Len(values)}

\* C16: the zone-identification accuracy is |G n E| / |G| for the set G of
\* ground-truth zone names and the set E of extracted zone names, compared
\* without regard to case after surrounding white space is trimmed; it lies
\* in [0, 1].
C16_ZoneAccuracyOnTrimmedNames ==
    (IsScored /\ scored.ground_truth_reqs # <<>>) =>
        /\ InUnit(scored.result.zone_accuracy)
        /\ scored.result.zone_accuracy =
              Ratio(Cardinality(
                        trimmed_names([i \in 1..Len(scored.ground_truth_reqs) |->
                                            DictAt(scored.ground_truth_reqs[i], "zone").s])
                        \cap trimmed_names([i \in 1..Len(scored.ai_zones) |->
                                            py_str(named_or(scored.ai_zones[i], Str(<<"u","n","k","n","o","w","n">>)))])),
                    Cardinality(
                        trimmed_names([i \in 1..Len(scored.ground_truth_reqs) |->
                                            DictAt(scored.ground_truth_reqs[i], "zone").s])))

\* a number with at most one decimal, in tenths
tenths(v) == v.m * Pow10(1 - v.e)

\* C17: the score of an extracted value against a ground-truth value is 1
\* when both are null and 0 when exactly one is; for numbers, when the
\* ground-truth value is 0 it is 1 if the extracted value is 0 and else 0;
\* otherwise it is 1 when the relative difference is at most 5% and
\* max(0, 1 - relative difference) beyond; every score lies in [0, 1].
C17_FieldScore ==
    (IsScored /\ scored.case = "field") =>
        /\ Len(scored.result.field_scores) = 1
        /\ InUnit(scored.result.field_scores[1])
        /\ (IsNone(scored.predicted) /\ IsNone(scored.actual))
                => scored.result.field_scores[1] = Ratio(1, 1)
        /\ (IsNone(scored.predicted) # IsNone(scored.actual))
                => scored.result.field_scores[1] = Ratio(0, 1)
        /\ (IsFinite(scored.predicted) /\ IsFinite(scored.actual) /\ scored.actual.m = 0)
                => scored.result.field_scores[1] = IF scored.predicted.m = 0 THEN Ratio(1, 1) ELSE Ratio(0, 1)
        /\ (IsFinite(scored.predicted) /\ IsFinite(scored.actual) /\ scored.actual.m # 0)
                => IF Abs(tenths(scored.predicted) - tenths(scored.actual)) * 100
                        <= 5 * Abs(tenths(scored.actual))
                   THEN scored.result.field_scores[1] = Ratio(1, 1)
                   ELSE IF Abs(tenths(scored.predicted) - tenths(scored.actual)) >= Abs(tenths(scored.actual))
                   THEN scored.result.field_scores[1] = Ratio(0, 1)
                   ELSE scored.result.field_scores[1].n * Abs(tenths(scored.actual))
                            = scored.result.field_scores[1].d
                                * (Abs(tenths(scored.actual))
                                   - Abs(tenths(scored.predicted) - tenths(scored.actual)))

\* 9200 against 8000 is scored 0.85
C17_Decayed ==
    /\ IsScored /\ scored.case = "field"
    /\ scored.predicted = Num(9200, 0) /\ scored.actual = Num(8000, 0)
    /\ scored.result.field_scores = <<Ratio(17, 20)>>

\* the value an extracted zone gives for a ground-truth field: the one
\* under the first of the field's names that the zone holds, else null
value_for(zone, gt_field, held) ==
    IF held = {} THEN None ELSE DictAt(zone, field_mappings[First(held)][1])

\* one score for each ground-truth field of a matched pair
scores_per_field(zone, gt_req) ==
    [i \in 1..Len(ground_truth_fields) |->
        calculate_field_accuracy_score(
            value_for(zone, ground_truth_fields[i],
                      {j \in 1..Len(field_mappings) :
                            field_mappings[j][2] = ground_truth_fields[i]
                            /\ DictHas(zone, field_mappings[j][1])}),
            DictAt(gt_req, ground_truth_fields[i]))]

\* the ground-truth requirements that have a name-matching extracted zone
matched_reqs(ai_zones, ground_truth_reqs) ==
    SelectSeq(ground_truth_reqs,
              LAMBDA r : \E i \in 1..Len(ai_zones) :
                            Upper(py_str(named_or(ai_zones[i], Str(<<>>)))) = Upper(DictAt(r, "zone").s))

\* the first extracted zone with the name of a ground-truth requirement
zone_of(ai_zones, gt_req) ==
    ai_zones[First({i \in 1..Len(ai_zones) :
                        Upper(py_str(named_or(ai_zones[i], Str(<<>>)))) = Upper(DictAt(gt_req, "zone").s)})]

RECURSIVE scores_of_all(_, _)
scores_of_all(ai_zones, reqs) ==
    IF reqs = <<>> THEN <<>>
    ELSE scores_per_field(zone_of(ai_zones, reqs[1]), reqs[1]) \o scores_of_all(ai_zones, Tail(reqs))

\* C18: the field accuracy is the mean of the field scores over every
\* ground-truth zone with a name-matching extracted zone and every
\* comparable field: exactly one score for each ground-truth field of each
\* matched zone, a field the extracted zone lacks scored as null, a field
\* given under two names scored once; unmatched zones give no scores.
C18_OneScorePerComparableField ==
    (IsScored /\ scored.ground_truth_reqs # <<>>) =>
        /\ Len(scored.result.field_scores)
                = Cardinality(comparable_fields)
                    * Len(matched_reqs(scored.ai_zones, scored.ground_truth_reqs))
        /\ scored.result.field_accuracy
                = field_accuracy(scores_of_all(scored.ai_zones,
                                               matched_reqs(scored.ai_zones, scored.ground_truth_reqs)))

\* C19: the overall accuracy returned is 0.4 times the zone accuracy plus
\* 0.6 times the field accuracy returned with it, and all three lie in
\* [0, 1], also for an empty ground truth and for an empty extraction.
C19_OverallIsWeighted ==
    IsScored =>
        /\ InUnit(scored.result.overall_accuracy)
        /\ InUnit(scored.result.zone_accuracy)
        /\ InUnit(scored.result.field_accuracy)
        /\ scored.result.overall_accuracy
             = Ratio(2 * scored.result.zone_accuracy.n * scored.result.field_accuracy.d
                        + 3 * scored.result.field_accuracy.n * scored.result.zone_accuracy.d,
                     5 * scored.result.zone_accuracy.d * scored.result.field_accuracy.d)

\* one zone of two found, its one field scored 0.85: overall 0.71
C19_HalfTheZones ==
    /\ IsScored
    /\ scored.result.zone_accuracy = Ratio(1, 2)
    /\ scored.result.field_accuracy = Ratio(17, 20)
    /\ scored.result.overall_accuracy = Ratio(71, 100)

\* the TestResults recorded for a run
ResultsOf(run) == SelectSeq(test_results, LAMBDA row : row.run = run)

\* C20: a call of run_ab_test that completes its comparison and returns
\* success has appended exactly one TestResult, holding the four computed
\* scores; and whatever fails during a call (a missing experiment or
\* ground truth, an error of the model, a record call that fails or is
\* half completed), at most one TestResult is recorded for the run.
C20_OneTestResultPerRun ==
    /\ \A run \in 1..MaxRuns : Len(ResultsOf(run)) <= 1
    /\ (ab_test.pc = "returned" /\ ab_test.success)
            => ResultsOf(ab_test.run)
                    = <<TestResult(ab_test.run, ab_test.ai_result.success, ab_test.accuracy_scores)>>

\* the text invocation p handed to process_grok_response: process_document
\* hands on what the model service made of the model's output
HandedText(p) ==
    IF inv[p].entry = "process_document" THEN grok_response_of(Response[inv[p].response])
    ELSE Response[inv[p].response]

\* whether invocation p has gone through process_grok_response
HasProcessed(p) == inv[p].pc = "done" /\ inv[p].result \in {"returned", "escaped"}

\* whether a text is a wrapper whose raw_response is a string
IsWrapper(text) ==
    /\ json_loads(text).ok
    /\ IsDict(json_loads(text).v)
    /\ DictHas(json_loads(text).v, "raw_response")
    /\ IsStr(DictAt(json_loads(text).v, "raw_response"))

\* whether a text does not parse directly while its cleaned first-"{" to
\* last-"}" slice parses to a document with a non-empty list of zones
SliceHoldsZones(raw) ==
    /\ ~json_loads(raw).ok
    /\ Find(raw, "{") # 0
    /\ RFind(raw, "}") >= Find(raw, "{")
    /\ json_loads(CleanedSlice(raw)).ok
    /\ IsDict(json_loads(CleanedSlice(raw)).v)
    /\ IsList(DictGet(json_loads(CleanedSlice(raw)).v, "zones", None))
    /\ Truthy(DictGet(json_loads(CleanedSlice(raw)).v, "zones", None))

\* C22: when the parsed document is a wrapper whose raw_response string
\* does not parse directly but is recoverable as its cleaned brace slice,
\* the zones of that slice are used: the invocation ends without having run
\* the regex scan.
C22_RawResponseRecoveredBySlice ==
    \A p \in DOMAIN inv :
        (/\ HasProcessed(p)
         /\ IsWrapper(HandedText(p))
         /\ SliceHoldsZones(DictAt(json_loads(HandedText(p)).v, "raw_response").s))
        => ~inv[p].scanned

\* the document process_grok_response parsed out of a text
ParsedDocument(text) == parse_response(Str(text)).data

\* the positions, in the order of zone_collection_keys, of the keys of a
\* document that hold a non-empty list
list_keys(doc) ==
    {i \in 1..Len(zone_collection_keys) :
        /\ DictHas(doc, zone_collection_keys[i])
        /\ IsList(DictAt(doc, zone_collection_keys[i]))
        /\ Truthy(DictAt(doc, zone_collection_keys[i]))}

\* C23: when a candidate key of the parsed document holds a non-empty list,
\* the zone collection is the value of the first such key: a candidate that
\* is present with an empty list or with something that is no list is
\* passed over, and the entries of the list are what the zone loop is
\* entered with.
C23_FirstNonEmptyListKey ==
    \A p \in DOMAIN inv :
        (/\ inv[p].entry = "process_grok_response"
         /\ inv[p].document = "NAMED"
         /\ parse_response(Str(HandedText(p))).kind = "parsed"
         /\ IsDict(ParsedDocument(HandedText(p)))
         /\ list_keys(ParsedDocument(HandedText(p))) # {})
        => /\ locate_zones(ParsedDocument(HandedText(p)))
                = DictAt(ParsedDocument(HandedText(p)),
                         zone_collection_keys[First(list_keys(ParsedDocument(HandedText(p))))])
           /\ inv[p].pc = "done" => inv[p].handed # <<>>

\* C27: when process_grok_response has returned from its zone loop, no
\* entry of the batch is left unprocessed, whatever was raised for an
\* earlier entry, and one id is returned for each write the store accepted.
C27_ErrorsConfinedToEntry ==
    \A p \in DOMAIN inv :
        (/\ HasProcessed(p)
         /\ ~inv[p].scanned)
        => /\ inv[p].zones = <<>>
           /\ Len(inv[p].requirement_ids)
                = Cardinality({i \in DOMAIN inv[p].handed : inv[p].handed[i].outcome = "accepted"})

\* whether a lot area has five digits, the first of them 1, 2 or 3, and is
\* within 1,000 to 50,000 once the first digit is removed
five_digit_candidate(n) ==
    /\ Len(IntToDigits(n)) = 5
    /\ Head(IntToDigits(n)) \in {"1", "2", "3"}
    /\ candidate_in_range(without_leading_digit(n))

\* the lot area the zone record is stored with
StoredArea == MappedRec.interior_min_lot_area_sqft

\* C24: a lot area that is no entry of the table of known contaminations,
\* has exactly five digits, starts with 1, 2 or 3 and lies within 1,000 to
\* 50,000 once its leading digit is removed, is stored with the leading
\* digit removed.
C24_FiveDigitRule ==
    (/\ IsMapped
     /\ mapped.given.form = "number"
     /\ mapped.given.area \notin DOMAIN contamination_patterns
     /\ five_digit_candidate(mapped.given.area))
        => StoredArea = Num(without_leading_digit(mapped.given.area), 0)

\* the zone name resolved for the zone record by zone-name extraction
ResolvedName == extract_zone_name(mapped.zone_data)

\* C25: for a lot area that neither the table nor the five-digit rule
\* changes, when the zone's name, resolved from whichever alias key carries
\* it, contains the area's leading digit and the area without that digit
\* lies within 1,000 to 50,000, the area is stored with the leading digit
\* removed.  The stored area is what the corrector gives for the resolved
\* name, whichever key carried it, and 15000 under a name that contains a 1
\* is stored as 5000.
C25_ZoneDigitRule ==
    (IsMapped /\ mapped.given.form = "number") =>
        /\ (/\ mapped.given.area \notin DOMAIN contamination_patterns
            /\ ~five_digit_candidate(mapped.given.area)
            /\ \E i \in DOMAIN ResolvedName.s : ResolvedName.s[i] = Head(IntToDigits(mapped.given.area))
            /\ candidate_in_range(without_leading_digit(mapped.given.area)))
                => StoredArea = Num(without_leading_digit(mapped.given.area), 0)
        /\ StoredArea = fix_contaminated_lot_area(mapped.given.lot_area, ResolvedName)
        /\ (/\ mapped.given.area = 15000
            /\ \E i \in DOMAIN ResolvedName.s : ResolvedName.s[i] = "1")
                => StoredArea = Num(5000, 0)

\* C28: the corrector applied to the lot area it returned, with the same
\* zone name, returns that lot area unchanged.
C28_CorrectorIdempotent ==
    (IsMapped /\ mapped.given.form = "number") =>
        fix_contaminated_lot_area(StoredArea, DictGet(mapped.zone_data, "zone_name", Str(<<>>)))
            = StoredArea

\* C26: every correction that changes a value leaves a log record with the
\* value before and the value after: a zone name whose footnote markers
\* were stripped, a numeric string whose footnote markers were stripped,
\* and a lot area altered by a rule of the corrector.
C26_EveryCorrectionLogged ==
    (IsMapped /\ mapped.given.form # "none") =>
        /\ mapped.given.zone_name.s # MappedRec.zone
            => Correction(mapped.given.zone_name, Str(MappedRec.zone)) \in mapped.log
        /\ mapped.given.form = "marked"
            => \E l \in mapped.log : l.before = mapped.given.lot_area
        /\ StoredArea # safe_numeric(mapped.given.lot_area)
            => Correction(safe_numeric(mapped.given.lot_area), StoredArea) \in mapped.log

\* C21: a POST to /upload that carries no file part is answered with status
\* 400, and it saves nothing in the upload folder and posts nothing to the
\* zoning backend.
C21_NoFilePartIsRejected ==
    upload_route.pc = "serving" =>
        \A i \in DOMAIN upload_route.replies :
            ~upload_route.replies[i].has_file
                => /\ upload_route.replies[i].status = 400
                   /\ upload_route.replies[i].saved = {}
                   /\ upload_route.replies[i].posted = <<>>

\* the submissions of an uploaded file, under its own name or the name of a
\* renamed copy
SubmissionsOf(name) ==
    {i \in DOMAIN upload_loop.submissions : Head(upload_loop.submissions[i].file) = name}

\* C29: in the upload processor loop a file whose submissions all fail is
\* submitted at most MAX_RETRIES times, counting the submissions of its
\* renamed copies, and no copy with the '.failed' suffix is ever submitted.
C29_SubmissionsBounded ==
    upload_loop.pc # "none" =>
        /\ \A i \in DOMAIN upload_loop.submissions : Len(upload_loop.submissions[i].file) = 1
        /\ \A name \in UploadedFiles :
            (\A i \in SubmissionsOf(name) : ~upload_loop.submissions[i].success)
                => Cardinality(SubmissionsOf(name)) <= MAX_RETRIES

\* C30: on both back ends, process_document fails a document with the
\* error 'Document file not found' exactly when the document has no file
\* path or no file exists at its path; and a document whose file exists and
\* yields text, for which the model succeeds, ends with status 'completed'
\* when its status updates are written.
C30_FileCheckOnBothBackEnds ==
    (doc_run.pc = "done" /\ doc_run.row.found) =>
        /\ doc_run.result.error = FILE_NOT_FOUND
                <=> (~Truthy(doc_run.row.file_path) \/ ~doc_run.row.on_disk)
        /\ (/\ doc_run.row.on_disk
            /\ Truthy(doc_run.text)
            /\ doc_run.grok_success
            /\ doc_run.update = "written")
                => doc_run.result.status = "completed"

====
